---- MODULE Spec2Model ----
(***************************************************************************)
(* Animation Studio: the component registry (ComponentRegistry.ts) and the *)
(* code generator (core/code-generator.ts).                                *)
(*                                                                         *)
(* JavaScript strings are TLA+ strings; `undefined` / an absent optional   *)
(* field is the empty sequence None and a present one is Some(v) = <<v>>.  *)
(* A Map or a plain object is the sequence of its entries in insertion     *)
(* order, which is the order Map.values() and Object.entries() iterate in. *)
(***************************************************************************)
EXTENDS Integers, Sequences, FiniteSets, TLC

VARIABLES
    componentRegistry,  \* the module-level Map<string, ComponentDefinition>
    lastCall,           \* the registry call that ran last and what it returned
    current,            \* history: id -> the definition of its last successful registration, if still registered
    before,             \* history: <<a, b>> when a's last successful registration precedes b's
    config,             \* the AnimationConfig handed to generateCode
    generated,          \* the generateCode call that ran last and the GeneratedCode it returned
    sample,             \* history: one earlier generateCode call, remembered
    clipboard,          \* the page of the code drawer: navigator.clipboard, document.body, copiedCode, copies in flight
    studio,             \* the AnimationStudio component: its useState values, both panels, the auto-play interval, the drawer
    player              \* the stand-alone toggle studio: its config, its playback state, the timer of timeoutRef

vars == <<componentRegistry, lastCall, current, before, config, generated, sample,
          clipboard, studio, player>>

regVars == <<componentRegistry, lastCall, current, before>>
genVars == <<config, generated, sample>>
uiVars == <<clipboard, studio, player>>

----------------------------------------------------------------------------
(* Bounds *)

MaxQueryLen == 2        \* longest search query / tag / category argument tried
MaxProps == 2           \* most entries in config.props
MaxCopies == 3          \* most handleCopy calls on one page
MaxToggleCount == 3     \* largest toggleCount set in the stand-alone toggle studio
MaxLoopCount == 4       \* flips after which an infinite loop is no longer followed

----------------------------------------------------------------------------
(* Optional values *)

None == <<>>
Some(v) == <<v>>
IsSome(o) == Len(o) = 1
Get(o) == o[1]

----------------------------------------------------------------------------
(* Strings *)

UpperCase == "ABCDEFGHIJKLMNOPQRSTUVWXYZ"
LowerCase == "abcdefghijklmnopqrstuvwxyz"

\* String.prototype.toLowerCase on one character (the ASCII range)
UpperChars == {SubSeq(UpperCase, i, i) : i \in 1..26}
LowerOf ==
    [c \in UpperChars |->
        LET i == CHOOSE j \in 1..26 : SubSeq(UpperCase, j, j) = c
        IN  SubSeq(LowerCase, i, i)]
toLowerChar(c) == IF c \in UpperChars THEN LowerOf[c] ELSE c

RECURSIVE toLowerCase(_)
toLowerCase(s) ==
    IF s = "" THEN "" ELSE toLowerChar(Head(s)) \o toLowerCase(Tail(s))

\* String.prototype.includes
includes(s, q) ==
    \E i \in 1..(Len(s) - Len(q) + 1) : SubSeq(s, i, i + Len(q) - 1) = q

\* Array.prototype.join
RECURSIVE join(_, _)
join(arr, sep) ==
    IF Len(arr) = 0 THEN ""
    ELSE IF Len(arr) = 1 THEN arr[1]
    ELSE arr[1] \o sep \o join(Tail(arr), sep)

\* Array.prototype.filter
filter(arr, Keep(_)) == SelectSeq(arr, Keep)

\* Array.prototype.includes / Array.prototype.some
arrayIncludes(arr, x) == \E i \in 1..Len(arr) : arr[i] = x
some(arr, P(_)) == \E i \in 1..Len(arr) : P(arr[i])

----------------------------------------------------------------------------
(* Prop values: the primitives the inspectors produce, tagged with typeof *)

Num(n)  == [type |-> "number",  num |-> n, str |-> "", bool |-> FALSE]
Str(s)  == [type |-> "string",  num |-> 0, str |-> s,  bool |-> FALSE]
Bool(b) == [type |-> "boolean", num |-> 0, str |-> "", bool |-> b]

\* value === other, on primitives
StrictEquals(a, b) == a = b

\* `${value}`
TemplateString(v) ==
    CASE v.type = "number"  -> ToString(v.num)
      [] v.type = "string"  -> v.str
      [] v.type = "boolean" -> IF v.bool THEN "true" ELSE "false"

\* ToBoolean(value)
Truthy(v) ==
    CASE v.type = "number"  -> v.num # 0
      [] v.type = "string"  -> v.str # ""
      [] v.type = "boolean" -> v.bool

----------------------------------------------------------------------------
(* Component definitions *)

PropConfig(type, defaultValue, isAnimationProp, transform) ==
    [type |-> type, defaultValue |-> defaultValue,
     isAnimationProp |-> isAnimationProp, transform |-> transform]

Entry(k, v) == [key |-> k, value |-> v]

BezierDefault == "cubic-bezier(0.4, 0.0, 0.2, 1)"

liquidToggleDefinition ==
    [id |-> "liquid-toggle",
     name |-> "Liquid Toggle",
     description |-> "A toggle switch with smooth liquid morphing animations and gooey effects",
     component |-> Some([name |-> "LiquidToggle"]),
     category |-> Some("forms"),
     tags |-> Some(<<"toggle", "switch", "liquid", "animated", "form">>),
     importPath |-> "@/components/liquid-components/LiquidToggle",
     stateMode |-> None,
     propSchema |-> Some(<<
        Entry("variant",        PropConfig("select",  Str("default"),     FALSE, "none")),
        Entry("duration",       PropConfig("range",   Num(600),           TRUE,  "none")),
        Entry("timingFunction", PropConfig("bezier",  Str(BezierDefault), TRUE,  "quote")),
        Entry("delay",          PropConfig("range",   Num(0),             TRUE,  "none")),
        Entry("primaryColor",   PropConfig("color",   Str(""),            FALSE, "quoteOrUndefined")),
        Entry("secondaryColor", PropConfig("color",   Str(""),            FALSE, "quoteOrUndefined")),
        Entry("disabled",       PropConfig("boolean", Bool(FALSE),        FALSE, "none")) >>),
     defaultProps |-> <<
        Entry("variant", Str("default")), Entry("duration", Num(600)),
        Entry("timingFunction", Str(BezierDefault)), Entry("delay", Num(0)),
        Entry("primaryColor", Str("")), Entry("secondaryColor", Str("")),
        Entry("disabled", Bool(FALSE)) >>,
     additionalImports |-> Some(<<
        [name |-> "LiquidToggleProps", path |-> "@/components/liquid-components/LiquidToggle", isType |-> TRUE] >>),
     componentCode |-> None]

liquidCheckboxDefinition ==
    [id |-> "liquid-checkbox",
     name |-> "Liquid Checkbox",
     description |-> "A checkbox with smooth liquid morphing animations and gooey effects",
     component |-> Some([name |-> "LiquidCheckbox"]),
     category |-> Some("forms"),
     tags |-> Some(<<"checkbox", "liquid", "animated", "form">>),
     importPath |-> "@/components/liquid-components/LiquidCheckbox",
     stateMode |-> None,
     propSchema |-> Some(<<
        Entry("variant",        PropConfig("select",  Str("default"),     FALSE, "none")),
        Entry("duration",       PropConfig("range",   Num(500),           TRUE,  "none")),
        Entry("timingFunction", PropConfig("bezier",  Str(BezierDefault), TRUE,  "quote")),
        Entry("delay",          PropConfig("range",   Num(0),             TRUE,  "none")),
        Entry("primaryColor",   PropConfig("color",   Str(""),            FALSE, "quoteOrUndefined")),
        Entry("secondaryColor", PropConfig("color",   Str(""),            FALSE, "quoteOrUndefined")),
        Entry("disabled",       PropConfig("boolean", Bool(FALSE),        FALSE, "none")) >>),
     defaultProps |-> <<
        Entry("variant", Str("default")), Entry("duration", Num(500)),
        Entry("timingFunction", Str(BezierDefault)), Entry("delay", Num(0)),
        Entry("primaryColor", Str("")), Entry("secondaryColor", Str("")),
        Entry("disabled", Bool(FALSE)) >>,
     additionalImports |-> Some(<<
        [name |-> "LiquidCheckboxProps", path |-> "@/components/liquid-components/LiquidCheckbox", isType |-> TRUE] >>),
     componentCode |-> None]

liquidButtonDefinition ==
    [id |-> "liquid-button",
     name |-> "Liquid Button",
     description |-> "A button with smooth liquid morphing animations for loading and success states",
     component |-> Some([name |-> "LiquidButton"]),
     category |-> Some("forms"),
     tags |-> Some(<<"button", "liquid", "animated", "loading", "form">>),
     importPath |-> "@/components/liquid-components/LiquidButton",
     stateMode |-> Some("button"),
     propSchema |-> Some(<<
        Entry("children",       PropConfig("string",  Str("Submit"),      FALSE, "none")),
        Entry("loading",        PropConfig("boolean", Bool(FALSE),        FALSE, "none")),
        Entry("success",        PropConfig("boolean", Bool(FALSE),        FALSE, "none")),
        Entry("variant",        PropConfig("select",  Str("default"),     FALSE, "none")),
        Entry("duration",       PropConfig("range",   Num(400),           TRUE,  "none")),
        Entry("timingFunction", PropConfig("bezier",  Str(BezierDefault), TRUE,  "quote")),
        Entry("delay",          PropConfig("range",   Num(0),             TRUE,  "none")),
        Entry("primaryColor",   PropConfig("color",   Str("#3b82f6"),     FALSE, "none")),
        Entry("secondaryColor", PropConfig("color",   Str("#2563eb"),     FALSE, "none")),
        Entry("disabled",       PropConfig("boolean", Bool(FALSE),        FALSE, "none")) >>),
     defaultProps |-> <<
        Entry("children", Str("Submit")), Entry("loading", Bool(FALSE)),
        Entry("success", Bool(FALSE)), Entry("variant", Str("default")),
        Entry("duration", Num(400)), Entry("timingFunction", Str(BezierDefault)),
        Entry("delay", Num(0)), Entry("primaryColor", Str("#3b82f6")),
        Entry("secondaryColor", Str("#2563eb")), Entry("disabled", Bool(FALSE)) >>,
     additionalImports |-> Some(<<
        [name |-> "LiquidButtonProps", path |-> "@/components/liquid-components/LiquidButton", isType |-> TRUE] >>),
     componentCode |-> None]

\* A second definition object under the id of the toggle: no tags, no
\* category, no additional imports, its own name and description.
plainToggleDefinition ==
    [liquidToggleDefinition EXCEPT
        !.name = "Toggle Two",
        !.description = "Plain switch",
        !.category = None,
        !.tags = None,
        !.additionalImports = None]

\* A definition written by a user of the studio: a value import next to the
\* type imports, a component code template, an animation prop outside the
\* CSS name table, a non-zero default delay, a boolean that defaults to true
\* and has a transform, and a colour with the omit-me transform and a
\* non-empty default.
customDefinition ==
    [id |-> "custom-switch",
     name |-> "Custom Switch",
     description |-> "User supplied switch",
     component |-> Some([name |-> "CustomSwitch"]),
     category |-> Some("feedback"),
     tags |-> Some(<<"custom">>),
     importPath |-> "@/components/custom/CustomSwitch",
     stateMode |-> Some("toggle"),
     propSchema |-> Some(<<
        Entry("disabled",       PropConfig("boolean", Bool(TRUE),         FALSE, "quote")),
        Entry("delay",          PropConfig("range",   Num(200),           TRUE,  "none")),
        Entry("duration",       PropConfig("range",   Num(600),           TRUE,  "none")),
        Entry("variant",        PropConfig("select",  Str("default"),     TRUE,  "none")),
        Entry("primaryColor",   PropConfig("color",   Str("#3b82f6"),     FALSE, "quoteOrUndefined")) >>),
     defaultProps |-> <<
        Entry("disabled", Bool(TRUE)), Entry("delay", Num(200)),
        Entry("duration", Num(600)), Entry("variant", Str("default")),
        Entry("primaryColor", Str("#3b82f6")) >>,
     additionalImports |-> Some(<<
        [name |-> "SwitchProps", path |-> "@/components/custom/CustomSwitch", isType |-> TRUE],
        [name |-> "useSwitch",   path |-> "@/components/custom/CustomSwitch", isType |-> FALSE],
        [name |-> "SwitchSize",  path |-> "@/components/custom/CustomSwitch", isType |-> TRUE] >>),
     componentCode |-> Some("export function CustomSwitch() {}")]

\* A second user definition: its duration and delay props do not drive an
\* animation, it imports one value and no type, and its component code
\* template is the empty string.
staticDefinition ==
    [id |-> "static-badge",
     name |-> "Static Badge",
     description |-> "User supplied badge",
     component |-> Some([name |-> "StaticBadge"]),
     category |-> None,
     tags |-> None,
     importPath |-> "@/components/custom/StaticBadge",
     stateMode |-> None,
     propSchema |-> Some(<<
        Entry("duration",       PropConfig("number",  Num(600),           FALSE, "none")),
        Entry("delay",          PropConfig("number",  Num(0),             FALSE, "none")),
        Entry("disabled",       PropConfig("boolean", Bool(TRUE),         FALSE, "none")) >>),
     defaultProps |-> <<
        Entry("duration", Num(600)), Entry("delay", Num(0)),
        Entry("disabled", Bool(TRUE)) >>,
     additionalImports |-> Some(<<
        [name |-> "badgeVariants", path |-> "@/components/custom/StaticBadge", isType |-> FALSE] >>),
     componentCode |-> Some("")]

\* Definitions registerComponent must reject
noComponentDefinition ==
    [liquidCheckboxDefinition EXCEPT !.id = "no-component", !.component = None]
noSchemaDefinition ==
    [liquidCheckboxDefinition EXCEPT !.id = "no-schema", !.propSchema = None]
noComponentButtonDefinition ==
    [liquidButtonDefinition EXCEPT !.component = None]

ValidDefinitions ==
    {liquidToggleDefinition, liquidCheckboxDefinition, liquidButtonDefinition,
     plainToggleDefinition}
InvalidDefinitions ==
    {noComponentDefinition, noSchemaDefinition, noComponentButtonDefinition}
Definitions == ValidDefinitions \cup InvalidDefinitions

Ids == {d.id : d \in Definitions}

----------------------------------------------------------------------------
(* Map<string, ComponentDefinition> *)

MapHas(m, k) == \E i \in 1..Len(m) : m[i].key = k

MapGet(m, k) ==
    IF MapHas(m, k)
    THEN Some(m[CHOOSE i \in 1..Len(m) : m[i].key = k].value)
    ELSE None

\* set() keeps the position of a key that is present and appends a new one
MapSetFront(m, k, v) ==
    IF MapHas(m, k)
    THEN [i \in 1..Len(m) |-> IF m[i].key = k THEN Entry(k, v) ELSE m[i]]
    ELSE <<Entry(k, v)>> \o m
MapSet(m, k, v) ==
    IF MapHas(m, k)
    THEN [i \in 1..Len(m) |-> IF m[i].key = k THEN Entry(k, v) ELSE m[i]]
    ELSE Append(m, Entry(k, v))

RECURSIVE MapDelete(_, _)
MapDelete(m, k) ==
    IF m = <<>> THEN <<>>
    ELSE IF Head(m).key = k THEN Tail(m)
    ELSE <<Head(m)>> \o MapDelete(Tail(m), k)

MapValues(m) == [i \in 1..Len(m) |-> m[i].value]

----------------------------------------------------------------------------
(* ComponentRegistry.ts *)

Returned(registry) == [threw |-> FALSE, error |-> "", registry |-> registry]
Thrown(registry, message) == [threw |-> TRUE, error |-> message, registry |-> registry]

\* registerComponent on the Map `registry`: what it throws and the Map it leaves
registerComponentOverwrite(registry, definition) ==
    IF ~IsSome(definition.component)
    THEN Thrown(registry, "missing the component property")
    ELSE IF ~IsSome(definition.propSchema)
    THEN Thrown(registry, "missing propSchema")
    ELSE Returned(MapSet(registry, definition.id, definition))
registerComponentUnvalidated(registry, definition) ==
    IF MapHas(registry, definition.id)
    THEN Thrown(registry, "already registered")
    ELSE Returned(MapSet(registry, definition.id, definition))
registerComponent(registry, definition) ==
    IF MapHas(registry, definition.id)
    THEN Thrown(registry, "already registered")
    ELSE IF ~IsSome(definition.component)
    THEN Thrown(registry, "missing the component property")
    ELSE IF ~IsSome(definition.propSchema)
    THEN Thrown(registry, "missing propSchema")
    ELSE Returned(MapSet(registry, definition.id, definition))

\* unregisterComponent: Map.delete returns whether the key was present
unregisterComponentAlwaysTrue(registry, id) ==
    [ret |-> TRUE, registry |-> MapDelete(registry, id)]
unregisterComponent(registry, id) ==
    [ret |-> MapHas(registry, id), registry |-> MapDelete(registry, id)]

getComponent(registry, id) == MapGet(registry, id)

getAllComponents(registry) == MapValues(registry)

hasComponent(registry, id) == MapHas(registry, id)

clearRegistryKeepingFirst(registry) ==
    IF Len(registry) = 0 THEN registry ELSE SubSeq(registry, 1, 1)
clearRegistry(registry) == <<>>

getComponentsByCategory(registry, category) ==
    LET Keep(def) == def.category = Some(category)
    IN  filter(getAllComponents(registry), Keep)

\* def.tags?.includes(tag) is undefined, hence falsy, without tags
getComponentsByTagSubstring(registry, tag) ==
    LET TagHit(t) == includes(t, tag)
        Keep(def) == IsSome(def.tags) /\ some(Get(def.tags), TagHit)
    IN  filter(getAllComponents(registry), Keep)
getComponentsByTag(registry, tag) ==
    LET Keep(def) == IsSome(def.tags) /\ arrayIncludes(Get(def.tags), tag)
    IN  filter(getAllComponents(registry), Keep)

searchComponentsCaseSensitive(registry, query) ==
    LET TagHit(tag) == includes(tag, query)
        Keep(def) ==
            \/ includes(def.name, query)
            \/ includes(def.description, query)
            \/ (IsSome(def.tags) /\ some(Get(def.tags), TagHit))
    IN  filter(getAllComponents(registry), Keep)
searchComponents(registry, query) ==
    LET lowercaseQuery == toLowerCase(query)
        TagHit(tag) == includes(toLowerCase(tag), lowercaseQuery)
        Keep(def) ==
            \/ includes(toLowerCase(def.name), lowercaseQuery)
            \/ includes(toLowerCase(def.description), lowercaseQuery)
            \/ (IsSome(def.tags) /\ some(Get(def.tags), TagHit))
    IN  filter(getAllComponents(registry), Keep)

\* initializeComponents: three registrations; the first that throws ends the call
initializeComponents(registry) ==
    LET r1 == registerComponent(registry, liquidToggleDefinition)
        r2 == registerComponent(r1.registry, liquidCheckboxDefinition)
        r3 == registerComponent(r2.registry, liquidButtonDefinition)
    IN  IF r1.threw THEN r1 ELSE IF r2.threw THEN r2 ELSE r3

----------------------------------------------------------------------------
(* Arguments the registry is called with *)

UnknownId == "no-such-id"
IdArgs == Ids \cup {UnknownId}
CategoryArgs == {"forms", "feedback"}
TagArgs == {"liquid", "toggle", "button", "Liquid", "anim"}
QueryChars == {"f", "O", "w", "T"}

RECURSIVE StringsUpTo(_)
StringsUpTo(n) ==
    IF n = 0 THEN {""}
    ELSE LET S == StringsUpTo(n - 1)
         IN  S \cup {s \o c : s \in S, c \in QueryChars}

QueryArgs == StringsUpTo(MaxQueryLen)

----------------------------------------------------------------------------
(* The registry calls, as steps *)

Call(op, arg, definition, threw, error, ret, defs) ==
    [op |-> op, arg |-> arg, definition |-> definition, threw |-> threw,
     error |-> error, ret |-> ret, defs |-> defs]

NoCall == Call("", "", None, FALSE, "", FALSE, <<>>)

Registered == {id \in IdArgs : IsSome(current[id])}

\* history bookkeeping of a successful registration of d
NoteRegistered(d) ==
    /\ current' = [current EXCEPT ![d.id] = Some(d)]
    /\ before' = {p \in before : p[1] # d.id /\ p[2] # d.id}
                    \cup {<<a, d.id>> : a \in Registered \ {d.id}}

NoteRemoved(ids) ==
    /\ current' = [id \in IdArgs |-> IF id \in ids THEN None ELSE current[id]]
    /\ before' = {p \in before : p[1] \notin ids /\ p[2] \notin ids}

RegisterComponent(d) ==
    LET r == registerComponent(componentRegistry, d)
    IN  /\ componentRegistry' = r.registry
        /\ lastCall' = Call("registerComponent", d.id, Some(d), r.threw, r.error, FALSE, <<>>)
        /\ IF r.threw THEN UNCHANGED <<current, before>> ELSE NoteRegistered(d)
        /\ UNCHANGED <<genVars, uiVars>>

UnregisterComponent(id) ==
    LET r == unregisterComponent(componentRegistry, id)
    IN  /\ componentRegistry' = r.registry
        /\ lastCall' = Call("unregisterComponent", id, None, FALSE, "", r.ret, <<>>)
        /\ NoteRemoved({id})
        /\ UNCHANGED <<genVars, uiVars>>

ClearRegistry ==
    /\ componentRegistry' = clearRegistry(componentRegistry)
    /\ lastCall' = Call("clearRegistry", "", None, FALSE, "", FALSE, <<>>)
    /\ NoteRemoved(IdArgs)
    /\ UNCHANGED <<genVars, uiVars>>

GetComponent(id) ==
    /\ lastCall' = Call("getComponent", id, None, FALSE, "", FALSE, getComponent(componentRegistry, id))
    /\ UNCHANGED <<componentRegistry, current, before>>
    /\ UNCHANGED <<genVars, uiVars>>

HasComponent(id) ==
    /\ lastCall' = Call("hasComponent", id, None, FALSE, "", hasComponent(componentRegistry, id), <<>>)
    /\ UNCHANGED <<componentRegistry, current, before>>
    /\ UNCHANGED <<genVars, uiVars>>

GetAllComponents ==
    /\ lastCall' = Call("getAllComponents", "", None, FALSE, "", FALSE, getAllComponents(componentRegistry))
    /\ UNCHANGED <<componentRegistry, current, before>>
    /\ UNCHANGED <<genVars, uiVars>>

GetComponentsByCategory(category) ==
    /\ lastCall' = Call("getComponentsByCategory", category, None, FALSE, "", FALSE,
                        getComponentsByCategory(componentRegistry, category))
    /\ UNCHANGED <<componentRegistry, current, before>>
    /\ UNCHANGED <<genVars, uiVars>>

GetComponentsByTag(tag) ==
    /\ lastCall' = Call("getComponentsByTag", tag, None, FALSE, "", FALSE,
                        getComponentsByTag(componentRegistry, tag))
    /\ UNCHANGED <<componentRegistry, current, before>>
    /\ UNCHANGED <<genVars, uiVars>>

SearchComponents(query) ==
    /\ lastCall' = Call("searchComponents", query, None, FALSE, "", FALSE,
                        searchComponents(componentRegistry, query))
    /\ UNCHANGED <<componentRegistry, current, before>>
    /\ UNCHANGED <<genVars, uiVars>>

----------------------------------------------------------------------------
(* The registry on its own *)

NoConfig == [componentId |-> "", props |-> <<>>, isActive |-> FALSE]

InitRegistry ==
    /\ componentRegistry = <<>>
    /\ lastCall = NoCall
    /\ current = [id \in IdArgs |-> None]
    /\ before = {}

\* The page before anything was copied
NoCopies(api) ==
    [api |-> api, pending |-> <<>>, systemClipboard |-> None, body |-> {},
     copiedCode |-> None, timers |-> 0, mechanisms |-> {}, results |-> <<>>]

\* No AnimationStudio is mounted
NoStudio ==
    [mounted |-> FALSE, crashed |-> FALSE, selectedComponentId |-> "",
     splitMode |-> FALSE, activePanel |-> "A", isPlaying |-> FALSE,
     panelA |-> [props |-> <<>>, isActive |-> FALSE],
     panelB |-> [props |-> <<>>, isActive |-> FALSE],
     sessionA |-> "", sessionB |-> "",
     rendered |-> None, interval |-> None, drawerOpen |-> FALSE, calls |-> <<>>]

\* DEFAULT_ANIMATION, as far as playback reads it
DEFAULT_ANIMATION == [duration |-> 500, toggleCount |-> 2, infiniteLoop |-> FALSE]

\* The stand-alone toggle studio after its first render; run is history:
\* whether playback was left alone since Play was last pressed, and the
\* flips of the toggle since then
NoPlayer ==
    [config |-> DEFAULT_ANIMATION, isPlaying |-> FALSE, toggleState |-> FALSE,
     currentToggle |-> 0, timeoutRef |-> None,
     run |-> [alone |-> FALSE, flips |-> 0]]

InitUi ==
    /\ clipboard = NoCopies(TRUE)
    /\ studio = NoStudio
    /\ player = NoPlayer

Init ==
    /\ InitRegistry
    /\ InitUi
    /\ config = NoConfig
    /\ generated = None
    /\ sample = None

Register == \E d \in Definitions : RegisterComponent(d)
Unregister == \E id \in IdArgs : UnregisterComponent(id)
Lookup == \E id \in IdArgs : GetComponent(id)
Has == \E id \in IdArgs : HasComponent(id)
ByCategory == \E category \in CategoryArgs : GetComponentsByCategory(category)
ByTag == \E tag \in TagArgs : GetComponentsByTag(tag)
Search == \E query \in QueryArgs : SearchComponents(query)

Next ==
    \/ Register
    \/ Unregister
    \/ ClearRegistry
    \/ Lookup
    \/ Has
    \/ GetAllComponents
    \/ ByCategory
    \/ ByTag
    \/ Search

Spec == Init /\ [][Next]_vars

----------------------------------------------------------------------------
(* core/code-generator.ts *)

\* The transform functions the definitions carry
ApplyTransform(transform, value) ==
    CASE transform = "quote" -> "\"" \o TemplateString(value) \o "\""
      [] transform = "quoteOrUndefined" ->
            IF Truthy(value) THEN "\"" \o TemplateString(value) \o "\"" ELSE "undefined"

\* The value null, and !propConfig: true of an absent and of a null entry
null == [null |-> TRUE]
Missing(found) == ~IsSome(found) \/ Get(found) = null

\* obj[key] on a plain object
ObjectGet(obj, key) ==
    IF \E i \in 1..Len(obj) : obj[i].key = key
    THEN Some(obj[CHOOSE i \in 1..Len(obj) : obj[i].key = key].value)
    ELSE None

\* const imports: string[] = [] -- a fresh array in every call
importsLeftFromLastCall == IF IsSome(generated) THEN Get(generated).code.imports ELSE <<>>
newImportsArray == <<>>

generateImportsTypeLineFirst(definition) ==
    LET additional == IF IsSome(definition.additionalImports)
                      THEN Get(definition.additionalImports) ELSE <<>>
        IsTypeImport(imp) == imp.isType
        IsValueImport(imp) == ~imp.isType
        Names(imps) == [i \in 1..Len(imps) |-> imps[i].name]
        typeImports == Names(SelectSeq(additional, IsTypeImport))
        valueImports == Names(SelectSeq(additional, IsValueImport))
        mainImportNames == <<Get(definition.component).name>> \o valueImports
        pushed == IF Len(typeImports) > 0
                  THEN Append(newImportsArray,
                              "import type { " \o join(typeImports, ", ") \o " } from '"
                                  \o definition.importPath \o "'")
                  ELSE newImportsArray
    IN  Append(pushed, "import { " \o join(mainImportNames, ", ") \o " } from '"
                           \o definition.importPath \o "'")
generateImportsAllInPrimary(definition) ==
    LET additional == IF IsSome(definition.additionalImports)
                      THEN Get(definition.additionalImports) ELSE <<>>
        IsTypeImport(imp) == imp.isType
        Names(imps) == [i \in 1..Len(imps) |-> imps[i].name]
        typeImports == Names(SelectSeq(additional, IsTypeImport))
        mainImportNames == <<Get(definition.component).name>> \o Names(additional)
        pushed == IF Len(typeImports) > 0
                  THEN Append(newImportsArray,
                              "import type { " \o join(typeImports, ", ") \o " } from '"
                                  \o definition.importPath \o "'")
                  ELSE newImportsArray
    IN  <<"import { " \o join(mainImportNames, ", ") \o " } from '"
              \o definition.importPath \o "'">> \o pushed
generateImports(definition) ==
    LET additional == IF IsSome(definition.additionalImports)
                      THEN Get(definition.additionalImports) ELSE <<>>
        IsTypeImport(imp) == imp.isType
        IsValueImport(imp) == ~imp.isType
        Names(imps) == [i \in 1..Len(imps) |-> imps[i].name]
        typeImports == Names(SelectSeq(additional, IsTypeImport))
        valueImports == Names(SelectSeq(additional, IsValueImport))
        mainImportNames == <<Get(definition.component).name>> \o valueImports
        pushed == IF Len(typeImports) > 0
                  THEN Append(newImportsArray,
                              "import type { " \o join(typeImports, ", ") \o " } from '"
                                  \o definition.importPath \o "'")
                  ELSE newImportsArray
    IN  <<"import { " \o join(mainImportNames, ", ") \o " } from '"
              \o definition.importPath \o "'">> \o pushed

generateComponentCode(definition) ==
    "// Component is defined in: " \o definition.importPath
        \o "\n// Use the import statement above to use this component"

AttributeLine(key, formattedValue) == "      " \o key \o "=" \o formattedValue

\* The body of the forEach over Object.entries(config.props) in
\* generateUsageCode: the lines one entry pushes (none or one)
usageEntryTransformFirst(key, value, definition) ==
    LET found == ObjectGet(Get(definition.propSchema), key)
        propConfig == Get(found)
    IN  IF Missing(found) THEN <<>>
        ELSE IF propConfig.transform # "none"
        THEN IF ApplyTransform(propConfig.transform, value) = "undefined" THEN <<>>
             ELSE <<AttributeLine(key, ApplyTransform(propConfig.transform, value))>>
        ELSE IF StrictEquals(value, propConfig.defaultValue) THEN <<>>
        ELSE IF value.type = "string" THEN <<AttributeLine(key, "\"" \o value.str \o "\"")>>
        ELSE IF value.type = "boolean"
        THEN IF ~value.bool THEN <<>> ELSE <<AttributeLine(key, "true")>>
        ELSE <<AttributeLine(key, "{" \o TemplateString(value) \o "}")>>
usageEntryKeepingUnknown(key, value, definition) ==
    LET found == ObjectGet(Get(definition.propSchema), key)
        propConfig == Get(found)
    IN  IF Missing(found)
        THEN <<AttributeLine(key, "{" \o TemplateString(value) \o "}")>>
        ELSE IF StrictEquals(value, propConfig.defaultValue) THEN <<>>
        ELSE IF StrictEquals(value, Str("")) /\ StrictEquals(propConfig.defaultValue, Str(""))
        THEN <<>>
        ELSE IF propConfig.transform # "none"
        THEN LET formattedValue == ApplyTransform(propConfig.transform, value)
             IN  IF formattedValue = "undefined" THEN <<>>
                 ELSE <<AttributeLine(key, formattedValue)>>
        ELSE IF value.type = "string" THEN <<AttributeLine(key, "\"" \o value.str \o "\"")>>
        ELSE IF value.type = "boolean"
        THEN IF ~value.bool THEN <<>> ELSE <<AttributeLine(key, "true")>>
        ELSE <<AttributeLine(key, "{" \o TemplateString(value) \o "}")>>
usageEntryEmittingFalse(key, value, definition) ==
    LET found == ObjectGet(Get(definition.propSchema), key)
        propConfig == Get(found)
    IN  IF Missing(found) THEN <<>>
        ELSE IF StrictEquals(value, propConfig.defaultValue) THEN <<>>
        ELSE IF StrictEquals(value, Str("")) /\ StrictEquals(propConfig.defaultValue, Str(""))
        THEN <<>>
        ELSE IF propConfig.transform # "none"
        THEN LET formattedValue == ApplyTransform(propConfig.transform, value)
             IN  IF formattedValue = "undefined" THEN <<>>
                 ELSE <<AttributeLine(key, formattedValue)>>
        ELSE IF value.type = "string" THEN <<AttributeLine(key, "\"" \o value.str \o "\"")>>
        ELSE IF value.type = "boolean"
        THEN <<AttributeLine(key, IF value.bool THEN "true" ELSE "{false}")>>
        ELSE <<AttributeLine(key, "{" \o TemplateString(value) \o "}")>>
usageEntryNoSentinel(key, value, definition) ==
    LET found == ObjectGet(Get(definition.propSchema), key)
        propConfig == Get(found)
    IN  IF Missing(found) THEN <<>>
        ELSE IF StrictEquals(value, propConfig.defaultValue) THEN <<>>
        ELSE IF StrictEquals(value, Str("")) /\ StrictEquals(propConfig.defaultValue, Str(""))
        THEN <<>>
        ELSE IF propConfig.transform # "none"
        THEN <<AttributeLine(key, ApplyTransform(propConfig.transform, value))>>
        ELSE IF value.type = "string" THEN <<AttributeLine(key, "\"" \o value.str \o "\"")>>
        ELSE IF value.type = "boolean"
        THEN IF ~value.bool THEN <<>> ELSE <<AttributeLine(key, "true")>>
        ELSE <<AttributeLine(key, "{" \o TemplateString(value) \o "}")>>
usageEntryQuotingAll(key, value, definition) ==
    LET found == ObjectGet(Get(definition.propSchema), key)
        propConfig == Get(found)
    IN  IF Missing(found) THEN <<>>
        ELSE IF StrictEquals(value, propConfig.defaultValue) THEN <<>>
        ELSE IF StrictEquals(value, Str("")) /\ StrictEquals(propConfig.defaultValue, Str(""))
        THEN <<>>
        ELSE IF propConfig.transform # "none"
        THEN IF ApplyTransform(propConfig.transform, value) = "undefined" THEN <<>>
             ELSE <<AttributeLine(key, ApplyTransform(propConfig.transform, value))>>
        ELSE IF value.type = "boolean"
        THEN IF ~value.bool THEN <<>> ELSE <<AttributeLine(key, "true")>>
        ELSE <<AttributeLine(key, "\"" \o TemplateString(value) \o "\"")>>
usageEntry(key, value, definition) ==
    LET found == ObjectGet(Get(definition.propSchema), key)
        propConfig == Get(found)
    IN  IF Missing(found) THEN <<>>
        ELSE IF StrictEquals(value, propConfig.defaultValue) THEN <<>>
        ELSE IF StrictEquals(value, Str("")) /\ StrictEquals(propConfig.defaultValue, Str(""))
        THEN <<>>
        ELSE IF propConfig.transform # "none"
        THEN IF ApplyTransform(propConfig.transform, value) = "undefined" THEN <<>>
             ELSE <<AttributeLine(key, ApplyTransform(propConfig.transform, value))>>
        ELSE IF value.type = "string" THEN <<AttributeLine(key, "\"" \o value.str \o "\"")>>
        ELSE IF value.type = "boolean"
        THEN IF ~value.bool THEN <<>> ELSE <<AttributeLine(key, "true")>>
        ELSE <<AttributeLine(key, "{" \o TemplateString(value) \o "}")>>

RECURSIVE usageEntries(_, _)
usageEntries(entries, definition) ==
    IF entries = <<>> THEN <<>>
    ELSE usageEntry(Head(entries).key, Head(entries).value, definition)
            \o usageEntries(Tail(entries), definition)

generateUsageCodeInSchemaOrder(cfg, definition) ==
    LET componentName == Get(definition.component).name
        schema == Get(definition.propSchema)
        IsSet(e) == \E j \in 1..Len(cfg.props) : cfg.props[j].key = e.key
        set == SelectSeq(schema, IsSet)
        ordered == [i \in 1..Len(set) |->
                       cfg.props[CHOOSE j \in 1..Len(cfg.props) : cfg.props[j].key = set[i].key]]
        lines ==
            << "// Usage Example",
               "'use client'",
               "",
               "import { useState } from 'react'",
               "import { " \o componentName \o " } from '" \o definition.importPath \o "'",
               "",
               "export function Example() {",
               "  const [checked, setChecked] = useState(false)",
               "",
               "  return (",
               "    <" \o componentName,
               "      checked={checked}",
               "      onCheckedChange={setChecked}" >>
            \o usageEntries(ordered, definition)
            \o << "    />", "  )", "}" >>
    IN  join(lines, "\n")
generateUsageCode(cfg, definition) ==
    LET componentName == Get(definition.component).name
        lines ==
            << "// Usage Example",
               "'use client'",
               "",
               "import { useState } from 'react'",
               "import { " \o componentName \o " } from '" \o definition.importPath \o "'",
               "",
               "export function Example() {",
               "  const [checked, setChecked] = useState(false)",
               "",
               "  return (",
               "    <" \o componentName,
               "      checked={checked}",
               "      onCheckedChange={setChecked}" >>
            \o usageEntries(cfg.props, definition)
            \o << "    />", "  )", "}" >>
    IN  join(lines, "\n")

\* value > 0 with the operand converted to a number; no string of the value
\* pools is a number other than 0
GreaterThanZero(v) ==
    CASE v.type = "number"  -> v.num > 0
      [] v.type = "boolean" -> v.bool
      [] v.type = "string"  -> FALSE

\* The body of the forEach in generateCSSCode
cssEntryAnyProp(key, value, definition) ==
    LET found == ObjectGet(Get(definition.propSchema), key)
        propConfig == Get(found)
    IN  IF Missing(found) THEN <<>>
        ELSE IF StrictEquals(value, propConfig.defaultValue) THEN <<>>
        ELSE IF key = "duration"
        THEN <<"  transition-duration: " \o TemplateString(value) \o "ms;">>
        ELSE IF key = "timingFunction"
        THEN <<"  transition-timing-function: " \o TemplateString(value) \o ";">>
        ELSE IF key = "delay"
        THEN IF GreaterThanZero(value)
             THEN <<"  transition-delay: " \o TemplateString(value) \o "ms;">>
             ELSE <<>>
        ELSE <<>>
cssEntryZeroDelay(key, value, definition) ==
    LET found == ObjectGet(Get(definition.propSchema), key)
        propConfig == Get(found)
    IN  IF Missing(found) THEN <<>>
        ELSE IF ~propConfig.isAnimationProp THEN <<>>
        ELSE IF StrictEquals(value, propConfig.defaultValue) THEN <<>>
        ELSE IF key = "duration"
        THEN <<"  transition-duration: " \o TemplateString(value) \o "ms;">>
        ELSE IF key = "timingFunction"
        THEN <<"  transition-timing-function: " \o TemplateString(value) \o ";">>
        ELSE IF key = "delay"
        THEN <<"  transition-delay: " \o TemplateString(value) \o "ms;">>
        ELSE <<>>
cssEntry(key, value, definition) ==
    LET found == ObjectGet(Get(definition.propSchema), key)
        propConfig == Get(found)
    IN  IF Missing(found) THEN <<>>
        ELSE IF ~propConfig.isAnimationProp THEN <<>>
        ELSE IF StrictEquals(value, propConfig.defaultValue) THEN <<>>
        ELSE IF key = "duration"
        THEN <<"  transition-duration: " \o TemplateString(value) \o "ms;">>
        ELSE IF key = "timingFunction"
        THEN <<"  transition-timing-function: " \o TemplateString(value) \o ";">>
        ELSE IF key = "delay"
        THEN IF GreaterThanZero(value)
             THEN <<"  transition-delay: " \o TemplateString(value) \o "ms;">>
             ELSE <<>>
        ELSE <<>>

RECURSIVE cssEntries(_, _)
cssEntries(entries, definition) ==
    IF entries = <<>> THEN <<>>
    ELSE cssEntry(Head(entries).key, Head(entries).value, definition)
            \o cssEntries(Tail(entries), definition)

generateCSSCodeEmptyString(cfg, definition) ==
    LET cssProps == cssEntries(cfg.props, definition)
    IN  IF Len(cssProps) = 0 THEN Some("")
        ELSE Some(".animated-element {\n" \o join(cssProps, "\n") \o "\n}")
generateCSSCode(cfg, definition) ==
    LET cssProps == cssEntries(cfg.props, definition)
    IN  IF Len(cssProps) = 0 THEN None
        ELSE Some(".animated-element {\n" \o join(cssProps, "\n") \o "\n}")

\* definition.componentCode || generateComponentCode(definition): an empty
\* template is falsy
generateCodeMergingTemplate(cfg, definition) ==
    [componentCode |->
        IF IsSome(definition.componentCode) /\ Get(definition.componentCode) # ""
        THEN generateComponentCode(definition) \o "\n" \o Get(definition.componentCode)
        ELSE generateComponentCode(definition),
     usageCode |-> generateUsageCode(cfg, definition),
     cssCode |-> generateCSSCode(cfg, definition),
     imports |-> generateImports(definition)]
generateCode(cfg, definition) ==
    [componentCode |->
        IF IsSome(definition.componentCode) /\ Get(definition.componentCode) # ""
        THEN Get(definition.componentCode)
        ELSE generateComponentCode(definition),
     usageCode |-> generateUsageCode(cfg, definition),
     cssCode |-> generateCSSCode(cfg, definition),
     imports |-> generateImports(definition)]

----------------------------------------------------------------------------
(* Inputs of the generator *)

GenDefinitions ==
    {liquidToggleDefinition, liquidButtonDefinition, customDefinition,
     plainToggleDefinition, staticDefinition}

\* Values the inspectors can set, by prop name; "mystery" is in no schema
PropValues ==
    [duration       |-> {Num(600), Num(800)},
     delay          |-> {Num(0), Num(200)},
     timingFunction |-> {Str(BezierDefault), Str("ease-in")},
     primaryColor   |-> {Str(""), Str("#3b82f6")},
     variant        |-> {Str("default"), Str("success")},
     disabled       |-> {Bool(FALSE), Bool(TRUE)},
     mystery        |-> {Num(7)}]

PropKeys == DOMAIN PropValues
PropEntries == UNION {{Entry(k, v) : v \in PropValues[k]} : k \in PropKeys}

\* Objects of at most n entries: sequences of entries with distinct keys
RECURSIVE PropsUpTo(_)
PropsUpTo(n) ==
    IF n = 0 THEN {<<>>}
    ELSE LET P == PropsUpTo(n - 1)
         IN  P \cup {Append(p, e) : p \in P, e \in PropEntries}

Configs ==
    {[componentId |-> "", props |-> p, isActive |-> FALSE] :
        p \in {q \in PropsUpTo(MaxProps) :
                  \A i, j \in 1..Len(q) : i # j => q[i].key # q[j].key}}

----------------------------------------------------------------------------
(* generateCode on a given config, with registry calls in between *)

GenerateCode(definition) ==
    LET call == [definition |-> definition, code |-> generateCode(config, definition)]
    IN  /\ generated' = Some(call)
        /\ \E remember \in BOOLEAN :
              sample' = IF remember /\ sample = None THEN Some(call) ELSE sample
        /\ UNCHANGED <<config, regVars, uiVars>>

InitializeComponents ==
    LET r == initializeComponents(componentRegistry)
        was == Registered
        now == {id \in IdArgs : hasComponent(r.registry, id)}
    IN  /\ componentRegistry' = r.registry
        /\ lastCall' = Call("initializeComponents", "", None, r.threw, r.error, FALSE, <<>>)
        /\ current' = [id \in IdArgs |-> getComponent(r.registry, id)]
        /\ before' = before \cup {<<a, b>> \in was \X (now \ was) : TRUE}
                             \cup {<<a, b>> \in (now \ was) \X (now \ was) :
                                      \E i, j \in 1..Len(r.registry) :
                                          i < j /\ r.registry[i].key = a /\ r.registry[j].key = b}
        /\ UNCHANGED <<genVars, uiVars>>

InitGen ==
    /\ InitRegistry
    /\ InitUi
    /\ config \in Configs
    /\ generated = None
    /\ sample = None

Generate == \E definition \in GenDefinitions : GenerateCode(definition)

NextGen ==
    \/ Generate
    \/ InitializeComponents
    \/ ClearRegistry

SpecGen == InitGen /\ [][NextGen]_vars

----------------------------------------------------------------------------
(* Properties of the registry *)

AllNow == getAllComponents(componentRegistry)
AllNext == getAllComponents(componentRegistry')

\* C1: registerComponent(d) with d.id already registered throws and leaves
\* the registry as it was: getComponent(d.id) is still the definition object
\* of the earlier registration and getAllComponents() is the same sequence.
C1_DuplicateRejected ==
    [][(lastCall'.op = "registerComponent"
            /\ hasComponent(componentRegistry, lastCall'.arg))
        => /\ lastCall'.threw
           /\ getComponent(componentRegistry', lastCall'.arg) = current[lastCall'.arg]
           /\ IsSome(current[lastCall'.arg])
           /\ AllNext = AllNow]_vars

C1_Witness ==
    /\ lastCall.op = "registerComponent"
    /\ lastCall.definition = Some(plainToggleDefinition)
    /\ lastCall.threw
    /\ lastCall.error = "already registered"
    /\ getComponent(componentRegistry, "liquid-toggle") = Some(liquidToggleDefinition)
    /\ Len(componentRegistry) = 2

\* C2: registerComponent(d) throws whenever d.component or d.propSchema is
\* missing, and then inserts nothing: the registry is the same afterwards.
C2_InvalidRejected ==
    [][(lastCall'.op = "registerComponent"
            /\ (\/ ~IsSome(Get(lastCall'.definition).component)
                \/ ~IsSome(Get(lastCall'.definition).propSchema)))
        => /\ lastCall'.threw
           /\ componentRegistry' = componentRegistry]_vars

C2_Witness ==
    /\ lastCall.op = "registerComponent"
    /\ lastCall.definition = Some(noSchemaDefinition)
    /\ lastCall.threw
    /\ lastCall.error = "missing propSchema"
    /\ ~hasComponent(componentRegistry, "no-schema")
    /\ Len(componentRegistry) = 1

\* C3: getAllComponents() lists exactly the currently registered definitions,
\* each id at most once, in the order of their most recent successful
\* registration, whatever calls came before.
C3_AllInRegistrationOrder ==
    /\ \A i, j \in 1..Len(AllNow) : i # j => AllNow[i].id # AllNow[j].id
    /\ {AllNow[i] : i \in 1..Len(AllNow)} = {Get(current[id]) : id \in Registered}
    /\ \A i, j \in 1..Len(AllNow) : i < j => <<AllNow[i].id, AllNow[j].id>> \in before

C3_Witness ==
    /\ lastCall.op = "registerComponent"
    /\ ~lastCall.threw
    /\ AllNow = <<liquidButtonDefinition, liquidCheckboxDefinition, plainToggleDefinition>>
    /\ <<"liquid-button", "liquid-toggle">> \in before

\* C4: getComponent(id) is the definition of the last successful registration
\* under id unless an unregisterComponent(id) or clearRegistry() came after
\* it, and undefined otherwise; after clearRegistry() every id is undefined
\* and getAllComponents() is empty; getComponent neither throws nor changes
\* the registry.
C4_GetComponent ==
    [][/\ \A id \in IdArgs : getComponent(componentRegistry', id) = current'[id]
       /\ lastCall'.op = "clearRegistry"
            => /\ \A id \in IdArgs : getComponent(componentRegistry', id) = None
               /\ AllNext = <<>>
       /\ lastCall'.op = "getComponent"
            => /\ ~lastCall'.threw
               /\ lastCall'.defs = current[lastCall'.arg]
               /\ componentRegistry' = componentRegistry]_vars

C4_Witness ==
    /\ lastCall.op = "getComponent"
    /\ lastCall.arg = "liquid-toggle"
    /\ lastCall.defs = Some(plainToggleDefinition)
    /\ hasComponent(componentRegistry, "liquid-button")

\* C5: unregisterComponent(id) returns true exactly when id was registered
\* and then removes that entry only, the others keeping their order; for an
\* id that is not registered it returns false, throws nothing and leaves the
\* registry unchanged.
C5_Unregister ==
    [][lastCall'.op = "unregisterComponent"
        => LET id == lastCall'.arg
               Other(def) == def.id # id
           IN  /\ ~lastCall'.threw
               /\ lastCall'.ret = (id \in Registered)
               /\ AllNext = SelectSeq(AllNow, Other)
               /\ Len(AllNext) = Len(AllNow) - (IF id \in Registered THEN 1 ELSE 0)
               /\ (id \notin Registered => componentRegistry' = componentRegistry)]_vars

C5_Witness ==
    /\ lastCall.op = "unregisterComponent"
    /\ lastCall.arg = "liquid-checkbox"
    /\ lastCall.ret
    /\ AllNow = <<liquidToggleDefinition, liquidButtonDefinition>>

\* The filter each call applies, stated on one definition
Letters == UpperChars \cup {SubSeq(LowerCase, i, i) : i \in 1..26}
LetterIndexOf ==
    [c \in Letters |->
        CHOOSE i \in 1..26 : c = SubSeq(UpperCase, i, i) \/ c = SubSeq(LowerCase, i, i)]
LetterIndex(c) == IF c \in Letters THEN LetterIndexOf[c] ELSE 0
SameIgnoringCase(a, b) ==
    a = b \/ (LetterIndex(a) # 0 /\ LetterIndex(a) = LetterIndex(b))
OccursIgnoringCase(q, s) ==
    \E off \in 0..(Len(s) - Len(q)) :
        \A j \in 1..Len(q) :
            SameIgnoringCase(SubSeq(s, off + j, off + j), SubSeq(q, j, j))
MatchesQuery(def, q) ==
    \/ OccursIgnoringCase(q, def.name)
    \/ OccursIgnoringCase(q, def.description)
    \/ (IsSome(def.tags)
            /\ \E i \in 1..Len(Get(def.tags)) : OccursIgnoringCase(q, Get(def.tags)[i]))
Satisfies(op, arg, def) ==
    CASE op = "getComponentsByCategory" -> def.category = Some(arg)
      [] op = "getComponentsByTag" ->
            IsSome(def.tags) /\ \E i \in 1..Len(Get(def.tags)) : Get(def.tags)[i] = arg
      [] op = "searchComponents" -> MatchesQuery(def, arg)

FilterOps == {"getComponentsByCategory", "getComponentsByTag", "searchComponents"}

PositionIn(arr, x) == CHOOSE i \in 1..Len(arr) : arr[i] = x

\* C6: getComponentsByCategory, getComponentsByTag and searchComponents
\* return the definitions of getAllComponents() that satisfy the filter, in
\* the same relative order, and leave the registry as it was.
C6_PureFilters ==
    [][lastCall'.op \in FilterOps
        => LET result == lastCall'.defs
           IN  /\ componentRegistry' = componentRegistry
               /\ \A i \in 1..Len(result) : arrayIncludes(AllNow, result[i])
               /\ \A i, j \in 1..Len(result) :
                      i < j => PositionIn(AllNow, result[i]) < PositionIn(AllNow, result[j])
               /\ \A k \in 1..Len(AllNow) :
                      arrayIncludes(result, AllNow[k])
                          <=> Satisfies(lastCall'.op, lastCall'.arg, AllNow[k])]_vars

C6_Witness ==
    /\ lastCall.op = "getComponentsByTag"
    /\ lastCall.arg = "liquid"
    /\ AllNow = <<liquidButtonDefinition, plainToggleDefinition, liquidCheckboxDefinition>>
    /\ lastCall.defs = <<liquidButtonDefinition, liquidCheckboxDefinition>>

\* C7: searchComponents(query) returns a registered definition exactly when
\* the query, compared without regard to case, occurs in its name, in its
\* description or in one of its tags; without tags, name and description
\* decide.
C7_SearchIgnoresCase ==
    lastCall.op = "searchComponents"
        => \A k \in 1..Len(AllNow) :
              arrayIncludes(lastCall.defs, AllNow[k]) <=> MatchesQuery(AllNow[k], lastCall.arg)

C7_Witness ==
    /\ lastCall.op = "searchComponents"
    /\ lastCall.arg = "fO"
    /\ AllNow = <<plainToggleDefinition, liquidCheckboxDefinition>>
    /\ lastCall.defs = <<liquidCheckboxDefinition>>

----------------------------------------------------------------------------
(* Properties of the generator *)

\* The lines of a text: where they start and what they are
Newlines(text) == {i \in 1..Len(text) : SubSeq(text, i, i) = "\n"}
LineStarts(text) == {1} \cup {i + 1 : i \in Newlines(text)}
LineAt(text, start) ==
    LET ends == {j \in Newlines(text) : j >= start} \cup {Len(text) + 1}
        end == CHOOSE j \in ends : \A k \in ends : j <= k
    IN  SubSeq(text, start, end - 1)

\* The lines of a text, with where they start
LinesOf(text) ==
    LET newlines == Newlines(text)
        ends == newlines \cup {Len(text) + 1}
        EndOf(st) == CHOOSE j \in ends : j >= st /\ \A k \in ends : k >= st => j <= k
    IN  {[at |-> st, line |-> SubSeq(text, st, EndOf(st) - 1)] :
            st \in {1} \cup {i + 1 : i \in newlines}}

\* Those of the lines that set the attribute `key`
AttributeLinesIn(lines, key) ==
    LET prefix == "      " \o key \o "="
    IN  {l \in lines : /\ Len(l.line) >= Len(prefix)
                       /\ SubSeq(l.line, 1, Len(prefix)) = prefix}

\* The lines of the usage code that set the attribute `key`
AttributeLinesFor(usageCode, key) ==
    LET prefix == "      " \o key \o "="
        starts == {st \in LineStarts(usageCode) :
                      /\ st + Len(prefix) - 1 <= Len(usageCode)
                      /\ SubSeq(usageCode, st, st + Len(prefix) - 1) = prefix}
    IN  {[at |-> st, line |-> LineAt(usageCode, st)] : st \in starts}

C9_DefaultsOmitted ==
    IsSome(generated)
        => LET definition == Get(generated).definition
               usageCode == Get(generated).code.usageCode
           IN  \A i \in 1..Len(config.props) :
                  LET key == config.props[i].key
                      found == ObjectGet(Get(definition.propSchema), key)
                  IN  (IsSome(found) /\ config.props[i].value = Get(found).defaultValue)
                          => AttributeLinesFor(usageCode, key) = {}

C9_Witness ==
    /\ IsSome(generated)
    /\ Get(generated).definition = liquidToggleDefinition
    /\ config.props = <<Entry("timingFunction", Str(BezierDefault)), Entry("duration", Num(800))>>
    /\ includes(Get(generated).code.usageCode, "\n      duration={800}\n")
    /\ ~includes(Get(generated).code.usageCode, "timingFunction")

\* The omission rules, stated on one entry
HasOmissionRule(key, value, definition) ==
    LET found == ObjectGet(Get(definition.propSchema), key)
    IN  \/ ~IsSome(found)
        \/ value = Get(found).defaultValue
        \/ value = Bool(FALSE)
        \/ (Get(found).transform # "none"
                /\ ApplyTransform(Get(found).transform, value) = "undefined")

\* C10: an entry of config.props under none of the omission rules has
\* exactly one attribute line in usageCode: <key>=<transform output> with a
\* transform, <key>={<value>} for a number and <key>="<value>" for a string
\* without one.
C10_NonDefaultsEmitted ==
    IsSome(generated)
        => LET definition == Get(generated).definition
               usageCode == Get(generated).code.usageCode
           IN  \A i \in 1..Len(config.props) :
                  LET key == config.props[i].key
                      value == config.props[i].value
                      transform == Get(ObjectGet(Get(definition.propSchema), key)).transform
                      found == AttributeLinesFor(usageCode, key)
                  IN  ~HasOmissionRule(key, value, definition)
                        => /\ Cardinality(found) = 1
                           /\ transform # "none"
                                => \A f \in found :
                                      f.line = "      " \o key \o "=" \o ApplyTransform(transform, value)
                           /\ (transform = "none" /\ value.type = "number")
                                => \A f \in found :
                                      f.line = "      " \o key \o "={" \o ToString(value.num) \o "}"
                           /\ (transform = "none" /\ value.type = "string")
                                => \A f \in found :
                                      f.line = "      " \o key \o "=\"" \o value.str \o "\""

C10_Witness ==
    /\ IsSome(generated)
    /\ Get(generated).definition = liquidToggleDefinition
    /\ config.props = <<Entry("duration", Num(800)), Entry("timingFunction", Str("ease-in"))>>
    /\ {f.line : f \in AttributeLinesFor(Get(generated).code.usageCode, "duration")}
            = {"      duration={800}"}
    /\ {f.line : f \in AttributeLinesFor(Get(generated).code.usageCode, "timingFunction")}
            = {"      timingFunction=\"ease-in\""}

\* C11: when a PropConfig has a transform and the transform of the current
\* value is the string "undefined", usageCode has no attribute line for that
\* key, whether or not the value equals the defaultValue.
C11_TransformSentinel ==
    IsSome(generated)
        => LET definition == Get(generated).definition
               lines == LinesOf(Get(generated).code.usageCode)
           IN  \A i \in 1..Len(config.props) :
                  LET key == config.props[i].key
                      found == ObjectGet(Get(definition.propSchema), key)
                  IN  (/\ IsSome(found)
                       /\ Get(found).transform # "none"
                       /\ ApplyTransform(Get(found).transform, config.props[i].value) = "undefined")
                          => AttributeLinesIn(lines, key) = {}

C11_Witness ==
    /\ IsSome(generated)
    /\ Get(generated).definition = customDefinition
    /\ config.props = <<Entry("primaryColor", Str("")), Entry("duration", Num(800))>>
    /\ AttributeLinesFor(Get(generated).code.usageCode, "primaryColor") = {}
    /\ Cardinality(AttributeLinesFor(Get(generated).code.usageCode, "duration")) = 1

\* C12: a boolean prop without a transform whose value is true and whose
\* default is false has the attribute line <key>={true} in usageCode.
C12_BooleanTrueBraced ==
    IsSome(generated)
        => LET definition == Get(generated).definition
               lines == LinesOf(Get(generated).code.usageCode)
           IN  \A i \in 1..Len(config.props) :
                  LET key == config.props[i].key
                      found == ObjectGet(Get(definition.propSchema), key)
                  IN  (/\ config.props[i].value = Bool(TRUE)
                       /\ IsSome(found)
                       /\ Get(found).transform = "none"
                       /\ Get(found).defaultValue = Bool(FALSE))
                          => \E l \in lines : l.line = AttributeLine(key, "{true}")

KnownProps(props, definition) ==
    LET IsKnown(e) == IsSome(ObjectGet(Get(definition.propSchema), e.key))
    IN  SelectSeq(props, IsKnown)

\* C14: a key of config.props that is not in definition.propSchema has no
\* attribute line in usageCode and no line in cssCode, and usageCode and
\* cssCode are what they would be without that key.
C14_UnknownKeysIgnored ==
    IsSome(generated)
        => LET definition == Get(generated).definition
               code == Get(generated).code
               lines == LinesOf(code.usageCode)
               known == KnownProps(config.props, definition)
               without == [config EXCEPT !.props = known]
           IN  /\ \A i \in 1..Len(config.props) :
                      ~IsSome(ObjectGet(Get(definition.propSchema), config.props[i].key))
                          => AttributeLinesIn(lines, config.props[i].key) = {}
               /\ code.usageCode = generateUsageCode(without, definition)
               /\ code.cssCode = generateCSSCode(without, definition)
               /\ (known = <<>>) => /\ code.cssCode = None
                                    /\ \A k \in PropKeys : AttributeLinesIn(lines, k) = {}

C14_Witness ==
    /\ IsSome(generated)
    /\ Get(generated).definition = customDefinition
    /\ config.props = <<Entry("timingFunction", Str("ease-in")), Entry("duration", Num(800))>>
    /\ AttributeLinesFor(Get(generated).code.usageCode, "timingFunction") = {}
    /\ Get(generated).code.cssCode
          = Some(".animated-element {\n  transition-duration: 800ms;\n}")

\* C15: in usageCode the line after the opening tag line is checked={checked}
\* and the next is onCheckedChange={setChecked}, for every stateMode; every
\* attribute line of a prop comes after them, and the attribute lines of two
\* props are in the order of their keys in config.props.
C15_AttributeOrdering ==
    IsSome(generated)
        => LET definition == Get(generated).definition
               lines == LinesOf(Get(generated).code.usageCode)
               tagLine == "    <" \o Get(definition.component).name
               tags == {l \in lines : l.line = tagLine}
               After(l) == {n \in lines : n.at = l.at + Len(l.line) + 1}
           IN  /\ Cardinality(tags) = 1
               /\ \A tag \in tags :
                     /\ After(tag) # {}
                     /\ \A first \in After(tag) :
                           /\ first.line = "      checked={checked}"
                           /\ After(first) # {}
                           /\ \A second \in After(first) :
                                 /\ second.line = "      onCheckedChange={setChecked}"
                                 /\ \A i \in 1..Len(config.props) :
                                       \A l \in AttributeLinesIn(lines, config.props[i].key) :
                                          l.at > second.at
               /\ \A i, j \in 1..Len(config.props) :
                     i < j => \A li \in AttributeLinesIn(lines, config.props[i].key) :
                                 \A lj \in AttributeLinesIn(lines, config.props[j].key) :
                                    li.at < lj.at

C15_Witness ==
    /\ IsSome(generated)
    /\ Get(generated).definition = liquidButtonDefinition
    /\ liquidButtonDefinition.stateMode = Some("button")
    /\ config.props = <<Entry("duration", Num(800)), Entry("variant", Str("success"))>>
    /\ \E ld \in AttributeLinesFor(Get(generated).code.usageCode, "duration") :
          \E lv \in AttributeLinesFor(Get(generated).code.usageCode, "variant") :
             /\ ld.line = "      duration={800}"
             /\ lv.line = "      variant=\"success\""
             /\ ld.at < lv.at

\* The additionalImports of a definition, and the names of those with the
\* given isType
AdditionalImportsOf(definition) ==
    IF IsSome(definition.additionalImports) THEN Get(definition.additionalImports) ELSE <<>>

ImportNames(definition, isType) ==
    LET Wanted(imp) == imp.isType = isType
        wanted == SelectSeq(AdditionalImportsOf(definition), Wanted)
    IN  [i \in 1..Len(wanted) |-> wanted[i].name]

StartsWith(s, prefix) ==
    Len(s) >= Len(prefix) /\ SubSeq(s, 1, Len(prefix)) = prefix

EndsWith(s, suffix) ==
    Len(s) >= Len(suffix) /\ SubSeq(s, Len(s) - Len(suffix) + 1, Len(s)) = suffix

\* C16: imports[0] is the primary import line from importPath; imports has
\* a second line exactly when an additionalImports entry has isType true,
\* and that line is the type import from importPath with the type names in
\* additionalImports order; imports has at most two lines.
C16_ImportOrdering ==
    IsSome(generated)
        => LET definition == Get(generated).definition
               imports == Get(generated).code.imports
               from == " } from '" \o definition.importPath \o "'"
               typeNames == ImportNames(definition, TRUE)
           IN  /\ Len(imports) \in {1, 2}
               /\ StartsWith(imports[1], "import { ")
               /\ EndsWith(imports[1], from)
               /\ Len(imports) = 2
                     <=> \E i \in 1..Len(AdditionalImportsOf(definition)) :
                            AdditionalImportsOf(definition)[i].isType
               /\ Len(imports) = 2
                     => imports[2] = "import type { " \o join(typeNames, ", ") \o from

C16_Witness ==
    /\ IsSome(generated)
    /\ Get(generated).definition = customDefinition
    /\ Len(Get(generated).code.imports) = 2
    /\ Get(generated).code.imports[2]
          = "import type { SwitchProps, SwitchSize } from '@/components/custom/CustomSwitch'"
    /\ IsSome(sample)
    /\ Get(sample).definition = staticDefinition
    /\ Len(Get(sample).code.imports) = 1

\* C17 as stated: the name list of the primary import line, and the import
\* and the tag in usageCode, start with definition.name; the names of the
\* value additionalImports follow in order; no type name is in the line.
C17_PrimaryStartsWithDefinitionName ==
    IsSome(generated)
        => LET definition == Get(generated).definition
               code == Get(generated).code
               from == " } from '" \o definition.importPath \o "'"
               names == <<definition.name>> \o ImportNames(definition, FALSE)
           IN  /\ code.imports[1] = "import { " \o join(names, ", ") \o from
               /\ \E l \in LinesOf(code.usageCode) :
                     l.line = "import { " \o definition.name \o from
               /\ \E l \in LinesOf(code.usageCode) :
                     l.line = "    <" \o definition.name

\* C17 amended: the name list of the primary import line, and the import and
\* the tag in usageCode, start with the name of the component function
\* definition.component.name; the names of the value additionalImports
\* follow in order; no type name is in the line.
C17_PrimaryStartsWithComponentName ==
    IsSome(generated)
        => LET definition == Get(generated).definition
               code == Get(generated).code
               from == " } from '" \o definition.importPath \o "'"
               componentName == Get(definition.component).name
               names == <<componentName>> \o ImportNames(definition, FALSE)
               typeNames == ImportNames(definition, TRUE)
               lines == LinesOf(code.usageCode)
           IN  /\ code.imports[1] = "import { " \o join(names, ", ") \o from
               /\ \A i \in 1..Len(typeNames) : ~includes(code.imports[1], typeNames[i])
               /\ \E l \in lines : l.line = "import { " \o componentName \o from
               /\ \E l \in lines : l.line = "    <" \o componentName

C17_Witness ==
    /\ IsSome(generated)
    /\ Get(generated).definition = customDefinition
    /\ customDefinition.name # Get(customDefinition.component).name
    /\ Get(generated).code.imports[1]
          = "import { CustomSwitch, useSwitch } from '@/components/custom/CustomSwitch'"

\* The two comment lines that stand for a component without a template
PlaceholderFor(definition) ==
    "// Component is defined in: " \o definition.importPath
        \o "\n// Use the import statement above to use this component"

\* C18 as stated: when definition.componentCode is set, to any string, the
\* componentCode of the result is that string; when it is not set, it is
\* the two-line placeholder naming importPath.
C18_OverrideWheneverSet ==
    IsSome(generated)
        => LET definition == Get(generated).definition
           IN  Get(generated).code.componentCode
                  = IF IsSome(definition.componentCode)
                    THEN Get(definition.componentCode)
                    ELSE PlaceholderFor(definition)

\* C18 amended: when definition.componentCode is set to a non-empty string,
\* the componentCode of the result is that string; when it is not set or is
\* the empty string, it is the two-line placeholder naming importPath.
C18_OverrideWhenNonEmpty ==
    IsSome(generated)
        => LET definition == Get(generated).definition
           IN  Get(generated).code.componentCode
                  = IF IsSome(definition.componentCode) /\ Get(definition.componentCode) # ""
                    THEN Get(definition.componentCode)
                    ELSE PlaceholderFor(definition)

C18_Witness ==
    /\ IsSome(generated)
    /\ Get(generated).definition = customDefinition
    /\ Get(generated).code.componentCode = "export function CustomSwitch() {}"
    /\ IsSome(sample)
    /\ Get(sample).definition = staticDefinition
    /\ staticDefinition.componentCode = Some("")
    /\ Get(sample).code.componentCode
          = "// Component is defined in: @/components/custom/StaticBadge"
               \o "\n// Use the import statement above to use this component"

\* The CSS property each props key of the table stands for
CssPropertyOf ==
    [duration       |-> "transition-duration",
     timingFunction |-> "transition-timing-function",
     delay          |-> "transition-delay"]

\* config.props has the key as an animation prop of the definition with a
\* value other than its default
ChangedAnimationProp(key, definition) ==
    \E i \in 1..Len(config.props) :
       LET found == ObjectGet(Get(definition.propSchema), key)
       IN  /\ config.props[i].key = key
           /\ IsSome(found)
           /\ Get(found).isAnimationProp
           /\ config.props[i].value # Get(found).defaultValue

\* C19: every line of cssCode between the opening and the closing line of
\* the rule is the line of duration, timingFunction or delay, and that key
\* is in config.props with isAnimationProp true in the propSchema and a
\* value other than the defaultValue.
C19_CssFiltering ==
    (IsSome(generated) /\ IsSome(Get(generated).code.cssCode))
        => LET definition == Get(generated).definition
               cssCode == Get(Get(generated).code.cssCode)
           IN  \A l \in LinesOf(cssCode) :
                  \/ l.at = 1 /\ l.line = ".animated-element {"
                  \/ l.at = Len(cssCode) /\ l.line = "}"
                  \/ \E key \in DOMAIN CssPropertyOf :
                        /\ StartsWith(l.line, "  " \o CssPropertyOf[key] \o ": ")
                        /\ ChangedAnimationProp(key, definition)

C19_Witness ==
    /\ IsSome(generated)
    /\ Get(generated).definition = customDefinition
    /\ config.props = <<Entry("variant", Str("success")), Entry("duration", Num(800))>>
    /\ ChangedAnimationProp("variant", customDefinition)
    /\ Get(generated).code.cssCode
          = Some(".animated-element {\n  transition-duration: 800ms;\n}")
    /\ IsSome(sample)
    /\ Get(sample).definition = staticDefinition
    /\ Get(sample).code.cssCode = None

\* C20: cssCode has a transition-delay line exactly when delay is in
\* config.props as an animation prop with a value other than its default and
\* greater than 0, and the line carries that value in ms; a delay of 0 has
\* no line.
C20_DelayOnlyWhenPositive ==
    IsSome(generated)
        => LET definition == Get(generated).definition
               code == Get(generated).code
               delayLines ==
                   IF IsSome(code.cssCode)
                   THEN {l \in LinesOf(Get(code.cssCode)) :
                            StartsWith(l.line, "  transition-delay")}
                   ELSE {}
               positive == {i \in 1..Len(config.props) :
                               /\ config.props[i].key = "delay"
                               /\ config.props[i].value.type = "number"
                               /\ config.props[i].value.num > 0}
           IN  /\ delayLines # {} <=> (positive # {} /\ ChangedAnimationProp("delay", definition))
               /\ \A l \in delayLines : \A i \in positive :
                     l.line = "  transition-delay: "
                                 \o ToString(config.props[i].value.num) \o "ms;"

C20_Witness ==
    /\ IsSome(generated)
    /\ Get(generated).definition = customDefinition
    /\ config.props = <<Entry("delay", Num(0)), Entry("duration", Num(800))>>
    /\ ChangedAnimationProp("delay", customDefinition)
    /\ Get(generated).code.cssCode
          = Some(".animated-element {\n  transition-duration: 800ms;\n}")

\* The CSS lines the entries of props stand for, in the order of props: one
\* line for an animation prop of the table with a value other than its
\* default, and for delay only with a value above 0
RECURSIVE ProducedCssLines(_, _)
ProducedCssLines(props, definition) ==
    IF props = <<>> THEN <<>>
    ELSE LET key == Head(props).key
             value == Head(props).value
             found == ObjectGet(Get(definition.propSchema), key)
             produces == /\ key \in DOMAIN CssPropertyOf
                         /\ IsSome(found)
                         /\ Get(found).isAnimationProp
                         /\ value # Get(found).defaultValue
                         /\ key = "delay" => (value.type = "number" /\ value.num > 0)
             text == IF value.type = "number" THEN ToString(value.num) \o "ms"
                     ELSE value.str
         IN  (IF produces THEN <<"  " \o CssPropertyOf[key] \o ": " \o text \o ";">>
              ELSE <<>>)
                \o ProducedCssLines(Tail(props), definition)

\* C21: cssCode is absent exactly when no CSS line is produced and is never
\* the empty string; otherwise it is the produced lines, in the order of
\* config.props, inside one .animated-element block. A delay of 0 as the
\* only changed animation prop leaves cssCode absent.
C21_NoCssSignal ==
    IsSome(generated)
        => LET definition == Get(generated).definition
               cssCode == Get(generated).code.cssCode
               produced == ProducedCssLines(config.props, definition)
           IN  /\ cssCode # Some("")
               /\ cssCode = None <=> produced = <<>>
               /\ produced # <<>>
                     => cssCode = Some(".animated-element {\n" \o join(produced, "\n") \o "\n}")

C21_Witness ==
    /\ IsSome(generated)
    /\ Get(generated).definition = customDefinition
    /\ config.props = <<Entry("delay", Num(0))>>
    /\ ChangedAnimationProp("delay", customDefinition)
    /\ Get(generated).code.cssCode = None
    /\ IsSome(sample)
    /\ Get(sample).definition = liquidToggleDefinition
    /\ Get(sample).code.cssCode = None

-----------------------------------------------------------------------------
(* generateCode on definitions that break their types *)

\* additionalImports with a null entry between a type and a value import
nullImportDefinition ==
    [customDefinition EXCEPT
        !.id = "null-import",
        !.additionalImports = Some(<<
            [name |-> "SwitchProps", path |-> "@/components/custom/CustomSwitch", isType |-> TRUE],
            null,
            [name |-> "useSwitch",   path |-> "@/components/custom/CustomSwitch", isType |-> FALSE] >>)]

\* propSchema.duration is null
nullPropConfigDefinition ==
    [customDefinition EXCEPT
        !.id = "null-prop-config",
        !.propSchema = Some(<<
            Entry("duration",     null),
            Entry("delay",        PropConfig("range",   Num(200),       TRUE,  "none")),
            Entry("disabled",     PropConfig("boolean", Bool(FALSE),    FALSE, "none")),
            Entry("primaryColor", PropConfig("color",   Str("#3b82f6"), FALSE, "quoteOrUndefined")) >>)]

MalformedDefinitions == {nullImportDefinition, nullPropConfigDefinition}

\* imp.isType in the forEach callback of generateImports raises a TypeError
\* when imp is null
generateImportsThrows(definition) ==
    /\ IsSome(definition.additionalImports)
    /\ \E i \in 1..Len(Get(definition.additionalImports)) :
          Get(definition.additionalImports)[i] = null

\* The additionalImports without their null entries
WithoutNullImports(definition) ==
    LET NotNull(imp) == imp # null
    IN  [definition EXCEPT
            !.additionalImports =
                IF IsSome(definition.additionalImports)
                THEN Some(SelectSeq(Get(definition.additionalImports), NotNull))
                ELSE None]

\* A generateCode call: generateImports runs first, and what it raises leaves
\* generateCode; lastCall records whether the call raised
GenerateCodeSkippingNull(definition) ==
    LET call == [definition |-> definition,
                 code |-> generateCode(config, WithoutNullImports(definition))]
    IN  /\ lastCall' = Call("generateCode", definition.id, Some(definition),
                            FALSE, "", FALSE, <<>>)
        /\ generated' = Some(call)
        /\ UNCHANGED <<componentRegistry, current, before, config, sample, uiVars>>
GenerateCodeOrThrow(definition) ==
    LET call == [definition |-> definition, code |-> generateCode(config, definition)]
    IN  /\ IF generateImportsThrows(definition)
           THEN /\ lastCall' = Call("generateCode", definition.id, Some(definition),
                                    TRUE, "TypeError", FALSE, <<>>)
                /\ generated' = generated
           ELSE /\ lastCall' = Call("generateCode", definition.id, Some(definition),
                                    FALSE, "", FALSE, <<>>)
                /\ generated' = Some(call)
        /\ UNCHANGED <<componentRegistry, current, before, config, sample, uiVars>>

GenerateAny == \E definition \in GenDefinitions \cup MalformedDefinitions :
                  GenerateCodeOrThrow(definition)

NextMalformed == GenerateAny

SpecMalformed == InitGen /\ [][NextMalformed]_vars

\* C22 as stated: generateCode does not raise, neither for well-formed
\* inputs nor for an absent additionalImports list, a null additionalImports
\* entry, or a props key whose propSchema entry is missing or null.
C22_NeverRaises ==
    lastCall.op = "generateCode" => ~lastCall.threw

\* C22 amended: generateCode raises exactly when additionalImports has a null
\* entry, and then with a TypeError; otherwise it returns a GeneratedCode,
\* and a props key whose propSchema entry is missing or null has no
\* attribute line in usageCode and no line in cssCode.
C22_RaisesOnlyOnNullImport ==
    lastCall.op = "generateCode"
        => LET definition == Get(lastCall.definition)
           IN  /\ lastCall.threw <=> generateImportsThrows(definition)
               /\ lastCall.threw => lastCall.error = "TypeError"
               /\ ~lastCall.threw
                     => /\ IsSome(generated)
                        /\ Get(generated).definition = definition
                        /\ LET code == Get(generated).code
                               lines == LinesOf(code.usageCode)
                               kept == SelectSeq(config.props,
                                          LAMBDA e : ~Missing(ObjectGet(Get(definition.propSchema), e.key)))
                           IN  /\ \A i \in 1..Len(config.props) :
                                     Missing(ObjectGet(Get(definition.propSchema),
                                                       config.props[i].key))
                                        => AttributeLinesIn(lines, config.props[i].key) = {}
                               /\ code.cssCode
                                     = generateCSSCode([config EXCEPT !.props = kept], definition)
                               /\ Len(code.imports) >= 1

C22_Witness ==
    /\ lastCall.op = "generateCode"
    /\ lastCall.threw
    /\ lastCall.definition = Some(nullImportDefinition)
    /\ IsSome(generated)
    /\ Get(generated).definition = nullPropConfigDefinition
    /\ config.props = <<Entry("duration", Num(800)), Entry("delay", Num(0))>>
    /\ AttributeLinesFor(Get(generated).code.usageCode, "duration") = {}
    /\ Cardinality(AttributeLinesFor(Get(generated).code.usageCode, "delay")) = 1
    /\ Get(generated).code.cssCode = None

-----------------------------------------------------------------------------
(* copyToClipboard and the Copy buttons of the code drawer *)

\* The tabs with a Copy button and the text each one copies
CopyTypes == {"usage", "import", "css"}
CodeOf(type) == "<" \o type \o " code>"

\* The offscreen textarea of the fallback
textArea(text) == [tag |-> "textarea", value |-> text, position |-> "fixed", left |-> "-999999px"]

\* document.body.appendChild / removeChild
appendChild(body, element) == body \cup {element}
removeChildForgotten(body, element) == body
removeChild(body, element) == body \ {element}

\* The else branch of copyToClipboard: execCommand('copy') returns whether
\* the copy worked, and the return value is not looked at
copyByTextArea(page, text, copied) ==
    LET element == textArea(text)
        appended == appendChild(page.body, element)
    IN  [page EXCEPT
            !.body = removeChild(appended, element),
            !.systemClipboard = IF copied THEN Some(text) ELSE @,
            !.mechanisms = @ \cup {"execCommand"},
            !.results = Append(@, "fulfilled")]

\* handleCopy after await copyToClipboard(code): setCopiedCode(type) and a
\* 2000 ms timer that clears it
afterCopy(page, type) ==
    [page EXCEPT !.copiedCode = Some(type), !.timers = @ + 1]

\* What follows the settling of navigator.clipboard.writeText(text) in
\* copyToClipboard and in handleCopy, which awaits it
afterWriteTextFallingBack(page, call, fulfilled) ==
    IF fulfilled
    THEN afterCopy([page EXCEPT !.systemClipboard = Some(call.code),
                                !.results = Append(@, "fulfilled")], call.type)
    ELSE afterCopy(copyByTextArea(page, call.code, TRUE), call.type)
afterWriteText(page, call, fulfilled) ==
    IF fulfilled
    THEN afterCopy([page EXCEPT !.systemClipboard = Some(call.code),
                                !.results = Append(@, "fulfilled")], call.type)
    ELSE [page EXCEPT !.results = Append(@, "rejected")]

\* A click on a Copy button: handleCopy(code, type) up to its first await
HandleCopy(type) ==
    /\ Len(clipboard.pending) + Len(clipboard.results) < MaxCopies
    /\ IF clipboard.api
       THEN clipboard' = [clipboard EXCEPT
                             !.pending = Append(@, [code |-> CodeOf(type), type |-> type]),
                             !.mechanisms = @ \cup {"writeText"}]
       ELSE \E copied \in BOOLEAN :
               clipboard' = afterCopy(copyByTextArea(clipboard, CodeOf(type), copied), type)
    /\ UNCHANGED <<regVars, genVars, studio, player>>

\* The promise of the oldest writeText in flight settles
WriteTextSettles(fulfilled) ==
    /\ clipboard.pending # <<>>
    /\ clipboard' = afterWriteText([clipboard EXCEPT !.pending = Tail(@)],
                                   Head(clipboard.pending), fulfilled)
    /\ UNCHANGED <<regVars, genVars, studio, player>>

\* setTimeout(() => setCopiedCode(null), 2000) fires
CopiedTimeout ==
    /\ clipboard.timers > 0
    /\ clipboard' = [clipboard EXCEPT !.copiedCode = None, !.timers = @ - 1]
    /\ UNCHANGED <<regVars, genVars, studio, player>>

InitCopy ==
    /\ InitRegistry
    /\ config = NoConfig
    /\ generated = None
    /\ sample = None
    /\ \E api \in BOOLEAN : clipboard = NoCopies(api)
    /\ studio = NoStudio
    /\ player = NoPlayer

Copy == \E type \in CopyTypes : HandleCopy(type)
WriteTextResolves == WriteTextSettles(TRUE)
WriteTextRejects == WriteTextSettles(FALSE)

NextCopy ==
    \/ Copy
    \/ WriteTextResolves
    \/ WriteTextRejects
    \/ CopiedTimeout

SpecCopy == InitCopy /\ [][NextCopy]_vars

\* C23: with the clipboard API present, execCommand is never used and no
\* textarea is created, and a step in which copyToClipboard ends rejected
\* runs no fallback, sets no copiedCode and writes nothing; execCommand is
\* used only with the API absent, and the textarea of the fallback is not
\* in the document afterwards.
C23_CopyToClipboard ==
    [][/\ clipboard'.api => clipboard'.mechanisms \subseteq {"writeText"}
       /\ "execCommand" \in clipboard'.mechanisms => ~clipboard'.api
       /\ clipboard'.body = {}
       /\ (Len(clipboard'.results) > Len(clipboard.results)
             /\ clipboard'.results[Len(clipboard'.results)] = "rejected")
            => /\ clipboard.api
               /\ clipboard'.mechanisms = clipboard.mechanisms
               /\ clipboard'.copiedCode = clipboard.copiedCode
               /\ clipboard'.timers = clipboard.timers
               /\ clipboard'.systemClipboard = clipboard.systemClipboard
       /\ (~clipboard.api /\ Len(clipboard'.results) > Len(clipboard.results))
            => /\ "execCommand" \in clipboard'.mechanisms
               /\ clipboard'.results[Len(clipboard'.results)] = "fulfilled"
               /\ IsSome(clipboard'.copiedCode)]_vars

C23_Witness ==
    /\ clipboard.api
    /\ clipboard.results = <<"fulfilled", "rejected">>
    /\ clipboard.copiedCode = Some("usage")
    /\ clipboard.systemClipboard = Some(CodeOf("usage"))
    /\ clipboard.mechanisms = {"writeText"}

-----------------------------------------------------------------------------
(* AnimationStudio: mount, render and effects *)

\* { ...obj, [key]: value }: an own key keeps its place, a new one goes last
ObjectSet(obj, key, value) ==
    IF \E i \in 1..Len(obj) : obj[i].key = key
    THEN [i \in 1..Len(obj) |-> IF obj[i].key = key THEN Entry(key, value) ELSE obj[i]]
    ELSE Append(obj, Entry(key, value))

\* definition.stateMode || 'toggle'
StateModeOf(definition) ==
    IF IsSome(definition.stateMode) /\ Get(definition.stateMode) # ""
    THEN Get(definition.stateMode) ELSE "toggle"

\* The config of the panel the inspector and the drawer work on
CurrentPanel(s) == IF s.activePanel = "A" THEN s.panelA ELSE s.panelB
CurrentSession(s) == IF s.activePanel = "A" THEN s.sessionA ELSE s.sessionB

\* One run of the component function and of the auto-play effect, whose
\* dependencies panelA and panelB are new objects in every render: the
\* interval of the last render is cleared and a new one starts with step 0.
\* An open drawer renders CodeDrawerContent, which calls generateCode.
RenderOnce(s, definition) ==
    [s EXCEPT
        !.rendered = definition,
        !.interval = IF s.isPlaying /\ IsSome(definition)
                     THEN Some([mode |-> StateModeOf(Get(definition)), step |-> 0,
                                splitMode |-> s.splitMode])
                     ELSE None,
        !.calls = IF s.drawerOpen /\ IsSome(definition)
                  THEN Append(@, [definition |-> Get(definition),
                                  config |-> [componentId |-> Get(definition).id,
                                              props |-> CurrentPanel(s).props,
                                              isActive |-> CurrentPanel(s).isActive],
                                  session |-> CurrentSession(s)])
                  ELSE @]

\* The effect of useComponentState, run for both panels after a render that
\* saw another definition than the render before
ResetPanelsKeepingProps(s, definition) == s
ResetPanels(s, definition) ==
    LET fresh == [props |-> definition.defaultProps, isActive |-> FALSE]
    IN  [s EXCEPT !.panelA = fresh, !.panelB = fresh,
                  !.sessionA = definition.id, !.sessionB = definition.id]

\* A render after a state change, with the effects it triggers and the
\* render their setConfig calls trigger in turn
Render(s, registry) ==
    LET definition == getComponent(registry, s.selectedComponentId)
        first == RenderOnce([s EXCEPT !.calls = <<>>], definition)
    IN  IF IsSome(definition) /\ definition # s.rendered
        THEN RenderOnce(ResetPanels(first, Get(definition)), definition)
        ELSE first

\* The state of the first render: useState initial values
FirstRender(registry) ==
    LET components == getAllComponents(registry)
        selected == IF Len(components) > 0 /\ components[1].id # ""
                    THEN components[1].id ELSE ""
        definition == getComponent(registry, selected)
        initial == [props |-> IF IsSome(definition) THEN Get(definition).defaultProps ELSE <<>>,
                    isActive |-> FALSE]
        session == IF IsSome(definition) THEN Get(definition).id ELSE ""
    IN  [NoStudio EXCEPT !.mounted = TRUE, !.selectedComponentId = selected,
                         !.panelA = initial, !.panelB = initial,
                         !.sessionA = session, !.sessionB = session]

\* What a generateCode call of the last render leaves in config and generated
Rendered(s) ==
    /\ studio' = s
    /\ IF s.calls # <<>>
       THEN LET last == s.calls[Len(s.calls)]
            IN  /\ config' = last.config
                /\ generated' = Some([definition |-> last.definition,
                                      code |-> generateCode(last.config, last.definition)])
       ELSE UNCHANGED <<config, generated>>
    /\ UNCHANGED <<sample, clipboard, player>>

\* AnimationStudio mounts: first render, then the mount effect calls
\* initializeComponents, then the panel effects; an error out of an effect
\* takes the component off the page
Mount ==
    /\ ~studio.mounted
    /\ LET r == initializeComponents(componentRegistry)
           was == Registered
           now == {id \in IdArgs : hasComponent(r.registry, id)}
           first == FirstRender(componentRegistry)
           definition == getComponent(componentRegistry, first.selectedComponentId)
       IN  /\ componentRegistry' = r.registry
           /\ lastCall' = Call("initializeComponents", "", None, r.threw, r.error, FALSE, <<>>)
           /\ current' = [id \in IdArgs |-> getComponent(r.registry, id)]
           /\ before' = before \cup {<<a, b>> \in was \X (now \ was) : TRUE}
                                \cup {<<a, b>> \in (now \ was) \X (now \ was) :
                                         \E i, j \in 1..Len(r.registry) :
                                             i < j /\ r.registry[i].key = a /\ r.registry[j].key = b}
           /\ IF r.threw
              THEN Rendered([NoStudio EXCEPT !.crashed = TRUE])
              ELSE IF IsSome(definition)
              THEN Rendered(RenderOnce(ResetPanels(RenderOnce(first, definition),
                                                   Get(definition)),
                                       getComponent(r.registry, first.selectedComponentId)))
              ELSE Rendered(RenderOnce(first, definition))

\* The page drops the component; the registry is module state and stays
Unmount ==
    /\ studio.mounted
    /\ Rendered(NoStudio)
    /\ UNCHANGED regVars

-----------------------------------------------------------------------------
(* AnimationStudio: what the user and the timers do *)

\* The editor is on the page, and nothing covers it: the code drawer is a
\* modal sheet, with it open only the drawer takes clicks
EditorShown == studio.mounted /\ IsSome(studio.rendered)
EditorUsable == EditorShown /\ ~studio.drawerOpen

\* The props the inspector is used on and the values it sets
InspectorValues ==
    [loading  |-> {Bool(FALSE), Bool(TRUE)},
     success  |-> {Bool(FALSE), Bool(TRUE)},
     duration |-> {Num(400), Num(800)}]

\* setConfig(prev => ...) of one panel
SetPanel(s, panel, cfg) ==
    IF panel = "A" THEN [s EXCEPT !.panelA = cfg] ELSE [s EXCEPT !.panelB = cfg]
PanelOf(s, panel) == IF panel = "A" THEN s.panelA ELSE s.panelB

\* updateProp of useComponentState
updatePropReplacingProps(cfg, key, value) == [cfg EXCEPT !.props = <<Entry(key, value)>>]
updateProp(cfg, key, value) == [cfg EXCEPT !.props = ObjectSet(@, key, value)]

\* toggleActive of useComponentState
toggleActive(cfg) == [cfg EXCEPT !.isActive = ~@]

\* The button branch of handleToggle, on the props of the last render
cycleButtonSkippingSuccess(cfg) ==
    LET loading == ObjectGet(cfg.props, "loading")
        success == ObjectGet(cfg.props, "success")
        isLoading == IsSome(loading) /\ Truthy(Get(loading))
        isSuccess == IsSome(success) /\ Truthy(Get(success))
    IN  IF ~isLoading /\ ~isSuccess THEN updateProp(cfg, "loading", Bool(TRUE))
        ELSE IF isLoading THEN updateProp(cfg, "loading", Bool(FALSE))
        ELSE updateProp(cfg, "success", Bool(FALSE))
cycleButton(cfg) ==
    LET loading == ObjectGet(cfg.props, "loading")
        success == ObjectGet(cfg.props, "success")
        isLoading == IsSome(loading) /\ Truthy(Get(loading))
        isSuccess == IsSome(success) /\ Truthy(Get(success))
    IN  IF ~isLoading /\ ~isSuccess THEN updateProp(cfg, "loading", Bool(TRUE))
        ELSE IF isLoading
        THEN updateProp(updateProp(cfg, "loading", Bool(FALSE)), "success", Bool(TRUE))
        ELSE updateProp(cfg, "success", Bool(FALSE))

\* handleToggle(panel)
handleToggle(s, panel) ==
    LET stateMode == StateModeOf(Get(s.rendered))
    IN  IF stateMode = "toggle" THEN SetPanel(s, panel, toggleActive(PanelOf(s, panel)))
        ELSE IF stateMode = "button" THEN SetPanel(s, panel, cycleButton(PanelOf(s, panel)))
        ELSE s

\* The Select of the toolbar: setSelectedComponentId
SelectComponent(id) ==
    /\ EditorUsable
    /\ hasComponent(componentRegistry, id)
    /\ id # studio.selectedComponentId
    /\ Rendered(Render([studio EXCEPT !.selectedComponentId = id], componentRegistry))
    /\ UNCHANGED regVars

\* The Split Mode button
ToggleSplit ==
    /\ EditorUsable
    /\ LET s == [studio EXCEPT !.splitMode = ~@]
       IN  Rendered(Render(IF ~studio.splitMode
                           THEN [s EXCEPT !.panelB = studio.panelA,
                                          !.sessionB = studio.sessionA]
                           ELSE s,
                           componentRegistry))
    /\ UNCHANGED regVars

\* The Panel A / Panel B buttons and the click on a panel, in split mode
SetActivePanel(panel) ==
    /\ EditorUsable
    /\ studio.splitMode
    /\ panel # studio.activePanel
    /\ Rendered(Render([studio EXCEPT !.activePanel = panel], componentRegistry))
    /\ UNCHANGED regVars

\* An editor of the PropInspector calls onChange = currentPanel.updateProp
UpdateProp(key, value) ==
    /\ EditorUsable
    /\ IsSome(ObjectGet(Get(Get(studio.rendered).propSchema), key))
    /\ Rendered(Render(SetPanel(studio, studio.activePanel,
                                updateProp(CurrentPanel(studio), key, value)),
                       componentRegistry))
    /\ UNCHANGED regVars

\* The Toggle button of the toolbar
ToolbarToggle ==
    /\ EditorUsable
    /\ Rendered(Render(handleToggle(studio, studio.activePanel), componentRegistry))
    /\ UNCHANGED regVars

\* A click on the previewed component of a panel; a button that is disabled
\* or loading takes no click; in split mode the click also reaches the
\* wrapper of the panel, which makes the panel the active one
PreviewClick(panel) ==
    /\ EditorUsable
    /\ panel = "B" => studio.splitMode
    /\ LET props == PanelOf(studio, panel).props
           Set(key) == IsSome(ObjectGet(props, key)) /\ Truthy(Get(ObjectGet(props, key)))
       IN  /\ ~Set("disabled")
           /\ StateModeOf(Get(studio.rendered)) = "button" => ~Set("loading")
    /\ LET toggled == handleToggle(studio, panel)
       IN  Rendered(Render(IF studio.splitMode THEN [toggled EXCEPT !.activePanel = panel]
                           ELSE toggled,
                           componentRegistry))
    /\ UNCHANGED regVars

\* The play / stop button
PlayPause ==
    /\ EditorUsable
    /\ Rendered(Render([studio EXCEPT !.isPlaying = ~@], componentRegistry))
    /\ UNCHANGED regVars

\* The reset button: panelA.reset(), and panelB.reset() in split mode
Reset ==
    /\ EditorUsable
    /\ LET definition == Get(studio.rendered)
           fresh == [props |-> definition.defaultProps, isActive |-> FALSE]
           a == [studio EXCEPT !.panelA = fresh, !.sessionA = definition.id]
       IN  Rendered(Render(IF studio.splitMode
                           THEN [a EXCEPT !.panelB = fresh, !.sessionB = definition.id]
                           ELSE a,
                           componentRegistry))
    /\ UNCHANGED regVars

\* The callback of the auto-play interval runs: 2000 ms for a toggle,
\* 1500 ms for a button with the step counter of this interval
autoPlayTick(s) ==
    LET interval == Get(s.interval)
        step == (interval.step + 1) % 3
        Show(cfg) == [cfg EXCEPT !.props =
                         ObjectSet(ObjectSet(@, "loading", Bool(step = 1)),
                                   "success", Bool(step = 2))]
        ticked == [s EXCEPT !.interval = Some([interval EXCEPT !.step = step])]
    IN  IF interval.mode = "toggle"
        THEN [s EXCEPT !.panelA = toggleActive(@),
                       !.panelB = IF interval.splitMode THEN toggleActive(@) ELSE @]
        ELSE IF interval.mode = "button"
        THEN [ticked EXCEPT !.panelA = Show(@),
                            !.panelB = IF interval.splitMode THEN Show(@) ELSE @]
        ELSE s

AutoPlayTick ==
    /\ studio.mounted
    /\ IsSome(studio.interval)
    /\ Rendered(Render(autoPlayTick(studio), componentRegistry))
    /\ UNCHANGED regVars

\* The Get Code button opens the sheet: CodeDrawerContent renders with the
\* definition and the config of the last render of the studio
OpenDrawer ==
    /\ EditorUsable
    /\ Rendered([RenderOnce([studio EXCEPT !.drawerOpen = TRUE, !.calls = <<>>],
                            studio.rendered)
                    EXCEPT !.interval = studio.interval])
    /\ UNCHANGED regVars

CloseDrawer ==
    /\ studio.mounted
    /\ studio.drawerOpen
    /\ Rendered([studio EXCEPT !.drawerOpen = FALSE, !.calls = <<>>])
    /\ UNCHANGED regVars

\* The application registers a component of its own before the studio is
\* on the page; current and before follow the ids of IdArgs only
RegisterOwn ==
    /\ ~studio.mounted
    /\ ~studio.crashed
    /\ LET r == registerComponent(componentRegistry, customDefinition)
       IN  /\ componentRegistry' = r.registry
           /\ lastCall' = Call("registerComponent", customDefinition.id,
                               Some(customDefinition), r.threw, r.error, FALSE, <<>>)
    /\ UNCHANGED <<current, before, genVars, uiVars>>

Select == \E id \in Ids \cup {customDefinition.id} : SelectComponent(id)
Activate == \E panel \in {"A", "B"} : SetActivePanel(panel)
Edit == \E key \in DOMAIN InspectorValues : \E value \in InspectorValues[key] :
           UpdateProp(key, value)
Click == \E panel \in {"A", "B"} : PreviewClick(panel)

NextStudio ==
    \/ RegisterOwn
    \/ Mount
    \/ Unmount
    \/ Select
    \/ ToggleSplit
    \/ Activate
    \/ Edit
    \/ ToolbarToggle
    \/ Click
    \/ PlayPause
    \/ Reset
    \/ AutoPlayTick
    \/ OpenDrawer
    \/ CloseDrawer

SpecStudio == Init /\ [][NextStudio]_vars

ButtonState(cfg) ==
    LET Set(key) == IsSome(ObjectGet(cfg.props, key)) /\ Truthy(Get(ObjectGet(cfg.props, key)))
    IN  <<Set("loading"), Set("success")>>

Normal == <<FALSE, FALSE>>
Loading == <<TRUE, FALSE>>
Success == <<FALSE, TRUE>>

NextOnCycle(state) ==
    IF state = Normal THEN Loading
    ELSE IF state = Loading THEN Success
    ELSE Normal

\* C25: with auto-play on for a widget with stateMode button, every tick of
\* the interval takes panel A from normal to loading, from loading to
\* success and from success to normal.
C25_AutoPlayAdvances ==
    [][(/\ AutoPlayTick
        /\ Get(studio.interval).mode = "button"
        /\ ButtonState(studio.panelA) \in {Normal, Loading, Success})
          => ButtonState(studio'.panelA) = NextOnCycle(ButtonState(studio.panelA))]_vars

\* handleToggle(panel) is activated by the Toggle button of the toolbar for
\* the active panel, or by a click on the button previewed in the panel
ActivatesHandleToggle(panel) ==
    \/ ToolbarToggle /\ studio.activePanel = panel
    \/ PreviewClick(panel)

\* C26: for a widget with stateMode button, every activation of handleToggle
\* moves the panel it names one step along normal -> loading -> success ->
\* normal, and never leaves loading and success both true.
C26_ManualCycle ==
    [][\A panel \in {"A", "B"} :
          (/\ ActivatesHandleToggle(panel)
           /\ StateModeOf(Get(studio.rendered)) = "button")
            => LET was == ButtonState(PanelOf(studio, panel))
                   is == ButtonState(PanelOf(studio', panel))
               IN  /\ was \in {Normal, Loading, Success} => is = NextOnCycle(was)
                   /\ is # <<TRUE, TRUE>>]_vars

\* The button previewed in panel B of a split studio has reached success
C26_Witness ==
    /\ EditorShown
    /\ StateModeOf(Get(studio.rendered)) = "button"
    /\ studio.splitMode
    /\ ~studio.isPlaying
    /\ ButtonState(studio.panelA) = Normal
    /\ ButtonState(studio.panelB) = Success

\* C27: once the mount effect of a studio has run initializeComponents, the
\* studio has a registered component selected and shows the editor. After
\* the mount nothing but the user acts on a studio that is not playing, so
\* what start-up reaches without user action is there when Mount is done.
C27_StartUpShowsEditor ==
    (/\ studio.mounted
     /\ lastCall.op = "initializeComponents"
     /\ ~lastCall.threw)
      => /\ hasComponent(componentRegistry, studio.selectedComponentId)
         /\ EditorShown

\* C28: the initializeComponents call of a mount never raises, and after it
\* the registry holds the three built-in widgets, in the order toggle,
\* checkbox, button.
C28_MountRegistersOnce ==
    LET BuiltIn(entry) == entry.key \in {"liquid-toggle", "liquid-checkbox", "liquid-button"}
        builtIns == SelectSeq(componentRegistry, BuiltIn)
    IN  lastCall.op = "initializeComponents"
          => /\ ~lastCall.threw
             /\ [i \in 1..Len(builtIns) |-> builtIns[i].key]
                  = <<"liquid-toggle", "liquid-checkbox", "liquid-button">>

\* The keys of an object
KeysOf(obj) == {obj[i].key : i \in 1..Len(obj)}

\* C29: the step that enters split mode leaves panel B with the props and
\* isActive panel A has, and an edit of the inspector in split mode sets the
\* named key of the active panel and changes nothing else: not the other
\* keys of the panel, not its isActive, not the other panel.
C29_SplitModeIsolation ==
    [][/\ (ToggleSplit /\ ~studio.splitMode)
            => /\ studio'.splitMode
               /\ studio'.panelB = studio.panelA
               /\ studio'.panelA = studio.panelA
       /\ \A key \in DOMAIN InspectorValues : \A value \in InspectorValues[key] :
             (UpdateProp(key, value) /\ studio.splitMode)
               => LET active == studio.activePanel
                      other == IF active = "A" THEN "B" ELSE "A"
                      was == PanelOf(studio, active)
                      is == PanelOf(studio', active)
                  IN  /\ ObjectGet(is.props, key) = Some(value)
                      /\ \A k \in (KeysOf(was.props) \cup KeysOf(is.props)) \ {key} :
                            ObjectGet(is.props, k) = ObjectGet(was.props, k)
                      /\ is.isActive = was.isActive
                      /\ PanelOf(studio', other) = PanelOf(studio, other)]_vars

\* In split mode the panels of a toggle widget, whose props only the
\* inspector changes, have come apart, with panel B active and switched on
C29_Witness ==
    /\ EditorShown
    /\ studio.splitMode
    /\ StateModeOf(Get(studio.rendered)) = "toggle"
    /\ studio.activePanel = "B"
    /\ studio.panelB.isActive
    /\ studio.panelA.props # studio.panelB.props

-----------------------------------------------------------------------------
(* The stand-alone toggle studio: Play, Pause, Reset and the playback timer *)

\* clearTimers: the timer of timeoutRef, if still pending, is cancelled
clearTimers(p) == [p EXCEPT !.timeoutRef = None]

\* What a run of runAnimation closes over: config of the render it was made
\* in, and its counter
Closure(cfg, count) ==
    [count |-> count, infiniteLoop |-> cfg.infiniteLoop, totalToggles |-> cfg.toggleCount,
     duration |-> cfg.duration]

\* doToggle of one run, called by runAnimation and then by its own timer
doToggleOnceMore(p, run) ==
    IF ~run.infiniteLoop /\ run.count > run.totalToggles
    THEN [p EXCEPT !.isPlaying = FALSE]
    ELSE LET count == run.count + 1
         IN  [p EXCEPT !.toggleState = ~@,
                       !.currentToggle = count,
                       !.timeoutRef =
                           Some([callback |-> "doToggle", run |-> [run EXCEPT !.count = count]])]
doToggle(p, run) ==
    IF ~run.infiniteLoop /\ run.count >= run.totalToggles
    THEN [p EXCEPT !.isPlaying = FALSE]
    ELSE LET count == run.count + 1
         IN  [p EXCEPT !.toggleState = ~@,
                       !.currentToggle = count,
                       !.timeoutRef =
                           Some([callback |-> IF run.infiniteLoop \/ count < run.totalToggles
                                              THEN "doToggle" ELSE "stop",
                                 run |-> [run EXCEPT !.count = count]])]

\* runAnimation of the last render
runAnimation(p) ==
    doToggle([clearTimers(p) EXCEPT !.currentToggle = 0], Closure(p.config, 0))

\* The play effect and its cleanup, run after a render in which isPlaying
\* or runAnimation (that is infiniteLoop, toggleCount, duration) changed;
\* a run that ends at once sets isPlaying false and the effect runs again
playEffect(p) ==
    LET ran == IF p.isPlaying THEN runAnimation(p) ELSE clearTimers(p)
    IN  IF ran.isPlaying THEN ran ELSE clearTimers(ran)

\* The new state goes on the page; the history counts the flip of the step
Plays(p, alone, flips) ==
    player' = [p EXCEPT !.run = [alone |-> alone,
                                 flips |-> IF ~alone THEN 0
                                           ELSE IF p.toggleState # player.toggleState
                                           THEN flips + 1 ELSE flips]]

\* handlePlay: the Play / Pause button
HandlePlay ==
    /\ Plays(playEffect([player EXCEPT !.isPlaying = ~@]), ~player.isPlaying, 0)
    /\ UNCHANGED <<regVars, genVars, clipboard, studio>>

\* handleReset: the Reset button
HandleReset ==
    /\ LET reset == clearTimers([player EXCEPT !.isPlaying = FALSE, !.toggleState = FALSE,
                                               !.currentToggle = 0])
       IN  Plays(IF player.isPlaying THEN playEffect(reset) ELSE reset, FALSE, 0)
    /\ UNCHANGED <<regVars, genVars, clipboard, studio>>

\* The timer of timeoutRef fires: doToggle of the run that set it, or the
\* setIsPlaying(false) that ends the run
TimeoutFires ==
    /\ IsSome(player.timeoutRef)
    /\ LET timer == Get(player.timeoutRef)
           fired == [player EXCEPT !.timeoutRef = None]
       IN  /\ timer.run.infiniteLoop => timer.run.count < MaxLoopCount
           /\ Plays(IF timer.callback = "doToggle"
                    THEN LET p == doToggle(fired, timer.run)
                         IN  IF p.isPlaying THEN p ELSE playEffect(p)
                    ELSE playEffect([fired EXCEPT !.isPlaying = FALSE]),
                    player.run.alone, player.run.flips)
    /\ UNCHANGED <<regVars, genVars, clipboard, studio>>

\* updateConfig(key, value) for the keys runAnimation depends on; the play
\* effect runs again when the value is another one than before
updateConfig(key, value) ==
    /\ player.config[key] # value
    /\ Plays(playEffect([player EXCEPT !.config[key] = value]), FALSE, 0)
    /\ UNCHANGED <<regVars, genVars, clipboard, studio>>

SetToggleCount == \E n \in 1..MaxToggleCount : updateConfig("toggleCount", n)
SetInfiniteLoop == updateConfig("infiniteLoop", ~player.config.infiniteLoop)
SetDuration == \E ms \in {500, 1000} : updateConfig("duration", ms)

NextPlayer ==
    \/ HandlePlay
    \/ HandleReset
    \/ TimeoutFires
    \/ SetToggleCount
    \/ SetInfiniteLoop
    \/ SetDuration

\* A timer that was set and not cleared fires
SpecPlayer == Init /\ [][NextPlayer]_vars /\ WF_vars(TimeoutFires)

\* Playback of a finite run that was left alone since Play was pressed
FiniteAlone == player.run.alone /\ ~player.config.infiniteLoop

\* C30: a finite playback left alone flips the toggle once per count of
\* currentToggle, which goes from 1 to toggleCount and not beyond, with a
\* timer pending all the while; it ends by itself, after exactly toggleCount
\* flips, and no timer is pending when the studio is not playing, so that
\* after Pause or Reset the toggle flips no more until Play is pressed.
C30_FinitePlayback ==
    /\ []((player.isPlaying /\ FiniteAlone)
             => /\ player.currentToggle \in 1..player.config.toggleCount
                /\ player.run.flips = player.currentToggle
                /\ IsSome(player.timeoutRef))
    /\ []((~player.isPlaying /\ FiniteAlone)
             => /\ player.run.flips = player.config.toggleCount
                /\ player.currentToggle = player.config.toggleCount)
    /\ [](~player.isPlaying => player.timeoutRef = None)
    /\ [][(player.isPlaying /\ FiniteAlone /\ player'.run.alone)
             => \/ player'.currentToggle = player.currentToggle + 1
                \/ /\ ~player'.isPlaying
                   /\ player'.currentToggle = player.currentToggle
                   /\ player'.toggleState = player.toggleState]_vars
    /\ [][(~player.isPlaying /\ player'.toggleState # player.toggleState)
             => \/ player'.isPlaying /\ player'.run.alone
                \/ ~player'.toggleState /\ player'.currentToggle = 0]_vars
    /\ (player.isPlaying /\ FiniteAlone) ~> (~player.isPlaying \/ ~player.run.alone)

\* A playback of three flips has run to its end by itself
C30_Witness ==
    /\ ~player.isPlaying
    /\ FiniteAlone
    /\ player.config.toggleCount = 3
    /\ player.run.flips = 3
    /\ player.toggleState
    /\ player.timeoutRef = None

====
